---- MODULE Spec2Model ----
(***************************************************************************)
(* A model of the tick-driven backtest engine of src/python/hft_backtest.py *)
(* (OrderBook, SlippageModel, MarketMakingStrategy, BacktestEngine).        *)
(*                                                                         *)
(* Numbers.  The program computes in floating point; the model computes    *)
(* the same expressions over exact decimal fixed point:                    *)
(*   - a price is an integer number of price units, one unit = 0.0001      *)
(*     (so the program's 0.01 is 100 units and 50.0 is 500000 units);      *)
(*   - a slippage fraction is an integer number of 1/FracDen (1e-8);       *)
(*   - a slippage-adjusted price and a P&L amount are "wide" numbers       *)
(*     [w, f] standing for w + f/FracDen, with 0 <= f < FracDen.           *)
(* The enumerated ticks, quantities and strategy configurations are chosen *)
(* so that every division the program performs is exact in these units;    *)
(* ArithmeticExact states it and is checked like any other invariant.      *)
(***************************************************************************)
EXTENDS Integers, Sequences, FiniteSets, TLC

VARIABLES
    redis_client,          \* BacktestEngine.redis_client: "none" or "connected"
    redis_store,           \* the external cache: key (symbol) -> cached tick
    order_books,           \* BacktestEngine.order_books: symbol -> OrderBook
    strategies,            \* BacktestEngine.strategies: symbol -> MarketMakingStrategy
    trades,                \* BacktestEngine.trades
    pnl_history,           \* BacktestEngine.pnl_history: <<timestamp, current_pnl>>
    current_pnl,           \* BacktestEngine.current_pnl
    positions,             \* BacktestEngine.positions: symbol -> int
    latency_measurements,  \* BacktestEngine.latency_measurements
    orders_processed,      \* BacktestEngine.orders_processed
    on_trade_calls,        \* observer: symbol -> number of on_trade invocations
    emitted,               \* observer: symbol -> the orders generate_orders returned so far
    stream,                \* observer: the ticks handed to process_market_data so far
    calls,                 \* observer: number of engine calls made after set-up
    last,                  \* observer: what the most recent engine call did
    processor,             \* the MarketDataProcessor and what its last simulation did
    parser,                \* the multithreaded FIX parsing run of the pipeline
    bindings               \* the PythonHftEngine, its caller and its market-making threads

vars == <<redis_client, redis_store, order_books, strategies, trades, pnl_history,
          current_pnl, positions, latency_measurements, orders_processed,
          on_trade_calls, emitted, stream, calls, last, processor, parser, bindings>>

----------------------------------------------------------------------------
(* Bounds of the model. *)

\* the number of engine calls (ticks, direct orders) of one run
MaxTicks == 3

----------------------------------------------------------------------------
(* Exact decimal arithmetic. *)

Limb == 100 * 100
FracDen == Limb * Limb

Min(a, b) == IF a <= b THEN a ELSE b
Max(a, b) == IF a >= b THEN a ELSE b
Abs(a) == IF a >= 0 THEN a ELSE -a
SetMax(S) == CHOOSE x \in S : \A y \in S : y <= x
SetMin(S) == CHOOSE x \in S : \A y \in S : x <= y

WInt(n) == [w |-> n, f |-> 0]
WZero == WInt(0)
WAdd(a, b) == [w |-> a.w + b.w + ((a.f + b.f) \div FracDen), f |-> (a.f + b.f) % FracDen]
WNeg(a) == IF a.f = 0 THEN [w |-> -a.w, f |-> 0] ELSE [w |-> -a.w - 1, f |-> FracDen - a.f]
WSub(a, b) == WAdd(a, WNeg(b))
WLess(a, b) == a.w < b.w \/ (a.w = b.w /\ a.f < b.f)
WLeq(a, b) == a = b \/ WLess(a, b)

\* x * s / FracDen for integers x >= 0 and 0 <= s < FracDen, limb by limb
MulFrac(x, s) ==
    LET xh == x \div Limb
        xl == x % Limb
        sh == s \div Limb
        sl == s % Limb
        lo == xl * sl
        c  == xh * sl + xl * sh + (lo \div Limb)
    IN  [w |-> xh * sh + (c \div Limb), f |-> (c % Limb) * Limb + (lo % Limb)]

\* a * q for a wide a and an integer q
WTimes(a, q) ==
    LET m == MulFrac(Abs(q), a.f)
        p == [w |-> a.w * Abs(q) + m.w, f |-> m.f]
    IN  IF q >= 0 THEN p ELSE WNeg(p)

\* p * (1 + s/FracDen) and p * (1 - s/FracDen) for an integer price p >= 0
TimesOnePlus(p, s) == WAdd(WInt(p), MulFrac(p, s))
TimesOneMinus(p, s) == WSub(WInt(p), MulFrac(p, s))

----------------------------------------------------------------------------
(* OrderBook *)

\* float('inf'), the best ask of an empty book
Inf == 2000000000

EmptyDict == [x \in {} |-> 0]

NewOrderBook(symbol) ==
    [symbol |-> symbol, bids |-> EmptyDict, asks |-> EmptyDict, last_update |-> 0]

\* a book that merges the tick into the levels it already holds
update_merging(book, data) ==
    [book EXCEPT !.bids = (data.bid :> data.bid_size) @@ @,
                 !.asks = (data.ask :> data.ask_size) @@ @,
                 !.last_update = data.timestamp]

update(book, data) ==
    [book EXCEPT !.bids = (data.bid :> data.bid_size),
                 !.asks = (data.ask :> data.ask_size),
                 !.last_update = data.timestamp]

get_best_bid(book) ==
    IF DOMAIN book.bids = {} THEN <<0, 0>>
    ELSE LET price == SetMax(DOMAIN book.bids) IN <<price, book.bids[price]>>

get_best_ask(book) ==
    IF DOMAIN book.asks = {} THEN <<Inf, 0>>
    ELSE LET price == SetMin(DOMAIN book.asks) IN <<price, book.asks[price]>>

\* a mid price that takes a bid of 0 for a bid
get_mid_price_zero_bid(book) ==
    LET bid == get_best_bid(book)[1]
        ask == get_best_ask(book)[1]
    IN  IF bid >= 0 /\ ask < Inf THEN (bid + ask) \div 2 ELSE 0

\* (bid + ask) / 2.0; the enumerated ticks keep bid + ask even
get_mid_price(book) ==
    LET bid == get_best_bid(book)[1]
        ask == get_best_ask(book)[1]
    IN  IF bid > 0 /\ ask < Inf THEN (bid + ask) \div 2 ELSE 0

----------------------------------------------------------------------------
(* SlippageModel *)

\* base_slippage_bps = 0.5, in tenths of a basis point
DefaultBaseSlippage == 5
\* volatility = 0.01, in hundredths
DefaultVolatility == 1

\* a slippage whose size factor is capped at 20 instead of 10
calculate_slippage_cap_20(base_slippage, order, volatility) ==
    LET s0 == base_slippage * 1000
        size_cap == Min(order.quantity, 20 * 1000)
        s1 == (s0 * (10 * 1000 + size_cap)) \div (10 * 1000)
        s2 == (s1 * (100 + 2 * volatility)) \div 100
    IN  IF order.type = "MARKET" THEN s2 * 2 ELSE s2

\* the slippage fraction in units of 1/FracDen
calculate_slippage(base_slippage, order, volatility) ==
    LET s0 == base_slippage * 1000
        size_cap == Min(order.quantity, 10 * 1000)
        s1 == (s0 * (10 * 1000 + size_cap)) \div (10 * 1000)
        s2 == (s1 * (100 + 2 * volatility)) \div 100
    IN  IF order.type = "MARKET" THEN s2 * 2 ELSE s2

----------------------------------------------------------------------------
(* MarketMakingStrategy *)

\* bid_price = bid + 0.01 and ask_price = ask - 0.01
PriceImprovement == 100
\* quantity=100 of every order the strategy emits
OrderQuantity == 100

NewStrategy(symbol, spread_bps, max_position, inventory_target) ==
    [symbol |-> symbol, spread_bps |-> spread_bps, max_position |-> max_position,
     inventory_target |-> inventory_target, position |-> 0, order_id_counter |-> 0,
     outstanding_orders |-> EmptyDict]

\* 1000 * spread, spread = spread_bps / 10000.0 * mid_price, mid_price = (bid + ask) / 2.0
spread_x1000(strategy, market_data) ==
    (strategy.spread_bps * (market_data.bid + market_data.ask)) \div 20

\* a skew that divides by a limit of at least one share
skew_adjustment_floor_one(strategy, market_data) ==
    ((strategy.position - strategy.inventory_target) * spread_x1000(strategy, market_data))
        \div (Max(strategy.max_position, 1) * 10 * 1000)

\* inventory_skew * spread * 0.1, inventory_skew = (position - inventory_target) / max_position
skew_adjustment(strategy, market_data) ==
    IF strategy.max_position > 0
    THEN ((strategy.position - strategy.inventory_target) * spread_x1000(strategy, market_data))
             \div (strategy.max_position * 10 * 1000)
    ELSE 0

\* quotes whose ask is moved away from the market instead of into it
quote_prices_ask_outside(strategy, market_data) ==
    LET adj == skew_adjustment(strategy, market_data)
    IN  <<market_data.bid + PriceImprovement - adj, market_data.ask + PriceImprovement - adj>>

\* quotes that the skew moves away from flattening
quote_prices_skew_reversed(strategy, market_data) ==
    LET adj == skew_adjustment(strategy, market_data)
    IN  <<market_data.bid + PriceImprovement + adj, market_data.ask - PriceImprovement + adj>>

\* <<bid_price, ask_price>> after the inventory skew
quote_prices(strategy, market_data) ==
    LET adj == skew_adjustment(strategy, market_data)
    IN  <<market_data.bid + PriceImprovement - adj, market_data.ask - PriceImprovement - adj>>

\* a check that lets a strategy buy whatever it holds
can_buy_unlimited(strategy, bid_price, ask_price) ==
    bid_price < ask_price

\* a limit check that still buys at the limit
can_buy_at_limit(strategy, bid_price, ask_price) ==
    strategy.position <= strategy.max_position /\ bid_price < ask_price

can_buy(strategy, bid_price, ask_price) ==
    strategy.position < strategy.max_position /\ bid_price < ask_price

\* a check that sells without looking at the BUY quote
can_sell_crossing(strategy, bid_price, ask_price) ==
    strategy.position > -strategy.max_position

can_sell(strategy, bid_price, ask_price) ==
    strategy.position > -strategy.max_position /\ ask_price > bid_price

LimitOrder(id, symbol, side, price, current_time) ==
    [id |-> id, symbol |-> symbol, side |-> side, type |-> "LIMIT",
     quantity |-> OrderQuantity, price |-> price, timestamp |-> current_time]

\* a quoting that numbers both orders of a tick after one increment
quote_orders_shared_id(strategy, market_data, current_time) ==
    LET q == quote_prices(strategy, market_data)
        bid_price == q[1]
        ask_price == q[2]
        buys == can_buy(strategy, bid_price, ask_price) /\ bid_price > 0
        sells == can_sell(strategy, bid_price, ask_price)
        c0 == strategy.order_id_counter
        c1 == IF buys \/ sells THEN c0 + 1 ELSE c0
        buy_order == LimitOrder(c1, strategy.symbol, "BUY", bid_price, current_time)
        sell_order == LimitOrder(c1, strategy.symbol, "SELL", ask_price, current_time)
    IN  [orders |-> (IF buys THEN <<buy_order>> ELSE <<>>)
                        \o (IF sells THEN <<sell_order>> ELSE <<>>),
         strategy |-> [strategy EXCEPT !.order_id_counter = c1]]

\* the quoting of generate_orders, after its no-market check
quote_orders(strategy, market_data, current_time) ==
    LET q == quote_prices(strategy, market_data)
        bid_price == q[1]
        ask_price == q[2]
        buys == can_buy(strategy, bid_price, ask_price) /\ bid_price > 0
        sells == can_sell(strategy, bid_price, ask_price)
        c0 == strategy.order_id_counter
        c1 == IF buys THEN c0 + 1 ELSE c0
        c2 == IF sells THEN c1 + 1 ELSE c1
        buy_order == LimitOrder(c1, strategy.symbol, "BUY", bid_price, current_time)
        sell_order == LimitOrder(c2, strategy.symbol, "SELL", ask_price, current_time)
    IN  [orders |-> (IF buys THEN <<buy_order>> ELSE <<>>)
                        \o (IF sells THEN <<sell_order>> ELSE <<>>),
         strategy |-> [strategy EXCEPT !.order_id_counter = c2]]

\* a generate_orders that quotes a market with a missing bid
generate_orders_one_sided(strategy, market_data, current_time) ==
    IF market_data.ask <= 0
    THEN [orders |-> <<>>, strategy |-> strategy]
    ELSE quote_orders(strategy, market_data, current_time)

\* the orders of one call and the strategy with its order_id_counter advanced
generate_orders(strategy, market_data, current_time) ==
    IF market_data.bid <= 0 \/ market_data.ask <= 0
    THEN [orders |-> <<>>, strategy |-> strategy]
    ELSE quote_orders(strategy, market_data, current_time)

\* a handler that keeps the position within the limit
on_trade_within_limit(strategy, trade) ==
    [strategy EXCEPT !.position =
        IF trade.side = "BUY" THEN Min(@ + trade.quantity, strategy.max_position)
        ELSE Max(@ - trade.quantity, -strategy.max_position)]

\* a handler that books every trade as a purchase
on_trade_ignoring_side(strategy, trade) ==
    [strategy EXCEPT !.position = @ + trade.quantity]

on_trade(strategy, trade) ==
    IF trade.side = "BUY"
    THEN [strategy EXCEPT !.position = @ + trade.quantity]
    ELSE [strategy EXCEPT !.position = @ - trade.quantity]

----------------------------------------------------------------------------
(* BacktestEngine: the fill rule *)

\* a BUY rule whose relaxed band excludes its own boundary
match_buy_open_band(book, order) ==
    LET ask_price == get_best_ask(book)[1]
    IN  IF ask_price > 0 /\ ask_price < Inf
        THEN IF order.type = "MARKET" \/ (order.type = "LIMIT" /\ order.price >= ask_price)
             THEN [filled |-> TRUE,
                   fill_price |-> IF order.type = "MARKET" THEN ask_price
                                  ELSE Min(order.price, ask_price)]
             ELSE IF order.type = "LIMIT" /\ order.price * 1000 > ask_price * 999
             THEN [filled |-> TRUE, fill_price |-> order.price]
             ELSE [filled |-> FALSE, fill_price |-> 0]
        ELSE [filled |-> FALSE, fill_price |-> 0]

\* a BUY rule whose relaxed band is 1% wide instead of 0.1%
match_buy_wide_band(book, order) ==
    LET ask_price == get_best_ask(book)[1]
    IN  IF ask_price > 0 /\ ask_price < Inf
        THEN IF order.type = "MARKET" \/ (order.type = "LIMIT" /\ order.price >= ask_price)
             THEN [filled |-> TRUE,
                   fill_price |-> IF order.type = "MARKET" THEN ask_price
                                  ELSE Min(order.price, ask_price)]
             ELSE IF order.type = "LIMIT" /\ order.price * 100 >= ask_price * 99
             THEN [filled |-> TRUE, fill_price |-> order.price]
             ELSE [filled |-> FALSE, fill_price |-> 0]
        ELSE [filled |-> FALSE, fill_price |-> 0]

\* [filled, fill_price] of a BUY order before slippage
match_buy(book, order) ==
    LET ask_price == get_best_ask(book)[1]
    IN  IF ask_price > 0 /\ ask_price < Inf
        THEN IF order.type = "MARKET" \/ (order.type = "LIMIT" /\ order.price >= ask_price)
             THEN [filled |-> TRUE,
                   fill_price |-> IF order.type = "MARKET" THEN ask_price
                                  ELSE Min(order.price, ask_price)]
             ELSE IF order.type = "LIMIT" /\ order.price * 1000 >= ask_price * 999
             THEN [filled |-> TRUE, fill_price |-> order.price]
             ELSE [filled |-> FALSE, fill_price |-> 0]
        ELSE [filled |-> FALSE, fill_price |-> 0]

\* a SELL rule that takes the lower of limit and bid when the order crosses
match_sell_at_limit(book, order) ==
    LET bid_price == get_best_bid(book)[1]
    IN  IF bid_price > 0
        THEN IF order.type = "MARKET" \/ (order.type = "LIMIT" /\ order.price <= bid_price)
             THEN [filled |-> TRUE,
                   fill_price |-> IF order.type = "MARKET" THEN bid_price
                                  ELSE Min(order.price, bid_price)]
             ELSE IF order.type = "LIMIT" /\ order.price * 1000 <= bid_price * 1001
             THEN [filled |-> TRUE, fill_price |-> order.price]
             ELSE [filled |-> FALSE, fill_price |-> 0]
        ELSE [filled |-> FALSE, fill_price |-> 0]

\* [filled, fill_price] of a SELL order before slippage
match_sell(book, order) ==
    LET bid_price == get_best_bid(book)[1]
    IN  IF bid_price > 0
        THEN IF order.type = "MARKET" \/ (order.type = "LIMIT" /\ order.price <= bid_price)
             THEN [filled |-> TRUE,
                   fill_price |-> IF order.type = "MARKET" THEN bid_price
                                  ELSE Max(order.price, bid_price)]
             ELSE IF order.type = "LIMIT" /\ order.price * 1000 <= bid_price * 1001
             THEN [filled |-> TRUE, fill_price |-> order.price]
             ELSE [filled |-> FALSE, fill_price |-> 0]
        ELSE [filled |-> FALSE, fill_price |-> 0]

match(book, order) ==
    IF order.side = "BUY" THEN match_buy(book, order) ELSE match_sell(book, order)

\* fill_price *= (1 + slippage) for a BUY, (1 - slippage) for a SELL
apply_slippage(order, fill_price, slippage) ==
    IF order.side = "BUY" THEN TimesOnePlus(fill_price, slippage)
    ELSE TimesOneMinus(fill_price, slippage)

----------------------------------------------------------------------------
(* BacktestEngine: bookkeeping.  An engine value e gathers the fields one    *)
(* call reads and writes; e.results is the observer's record of each order   *)
(* handed to process_order during the call, e.seen of the engine each        *)
(* on_trade invocation of the call found.                                    *)

Engine ==
    [order_books |-> order_books, strategies |-> strategies, trades |-> trades,
     pnl_history |-> pnl_history, current_pnl |-> current_pnl, positions |-> positions,
     orders_processed |-> orders_processed, on_trade_calls |-> on_trade_calls,
     latency_measurements |-> latency_measurements,
     emitted |-> emitted, results |-> <<>>, seen |-> <<>>]

NewTrade(order, fill_price, slippage) ==
    [order_id |-> order.id, symbol |-> order.symbol, side |-> order.side,
     quantity |-> order.quantity, price |-> fill_price, timestamp |-> order.timestamp,
     slippage |-> slippage]

\* the signed cash flow of a trade: -price * quantity for a BUY, +price * quantity for a SELL
\* an impact that books purchases as revenue
pnl_impact_unsigned(trade) ==
    WTimes(trade.price, trade.quantity)

pnl_impact(trade) ==
    IF trade.side = "BUY" THEN WNeg(WTimes(trade.price, trade.quantity))
    ELSE WTimes(trade.price, trade.quantity)

\* a bookkeeping that records P&L history for revenue only
update_position_and_pnl_sells_only(e, trade, market_data) ==
    LET pnl == WAdd(e.current_pnl, pnl_impact(trade))
    IN  [e EXCEPT !.positions[trade.symbol] =
                      IF trade.side = "BUY" THEN @ + trade.quantity ELSE @ - trade.quantity,
                  !.current_pnl = pnl,
                  !.pnl_history = IF trade.side = "SELL"
                                  THEN Append(@, <<trade.timestamp, pnl>>) ELSE @]

update_position_and_pnl(e, trade, market_data) ==
    LET pnl == WAdd(e.current_pnl, pnl_impact(trade))
    IN  [e EXCEPT !.positions[trade.symbol] =
                      IF trade.side = "BUY" THEN @ + trade.quantity ELSE @ - trade.quantity,
                  !.current_pnl = pnl,
                  !.pnl_history = Append(@, <<trade.timestamp, pnl>>)]

\* what process_order can read or write, for the observer
Snapshot(e) ==
    [order_books |-> e.order_books, strategies |-> e.strategies, trades |-> e.trades,
     pnl_history |-> e.pnl_history, current_pnl |-> e.current_pnl, positions |-> e.positions,
     orders_processed |-> e.orders_processed]

\* self.strategies[order.symbol].on_trade(trade), counted by the observer
notify_strategy(e, trade) ==
    IF trade.symbol \in DOMAIN e.strategies
    THEN [e EXCEPT !.strategies[trade.symbol] = on_trade(@, trade),
                   !.on_trade_calls[trade.symbol] = @ + 1,
                   !.seen = Append(@, Snapshot(e))]
    ELSE e

\* a fill that notifies the strategy before it books the trade
fill_order_notify_first(e, order, market_data, fill_price) ==
    LET slippage == calculate_slippage(DefaultBaseSlippage, order, DefaultVolatility)
        trade == NewTrade(order, apply_slippage(order, fill_price, slippage), slippage)
        e1 == notify_strategy(e, trade)
        e2 == [e1 EXCEPT !.trades = Append(@, trade)]
    IN  update_position_and_pnl(e2, trade, market_data)

\* the part of process_order under "if filled:"
\* a fill limited to the size displayed on the other side of the book
fill_order_up_to_size(e, order, market_data, fill_price) ==
    LET slippage == calculate_slippage(DefaultBaseSlippage, order, DefaultVolatility)
        size == IF order.side = "BUY" THEN market_data.ask_size ELSE market_data.bid_size
        trade == NewTrade([order EXCEPT !.quantity = Min(@, size)],
                          apply_slippage(order, fill_price, slippage), slippage)
        e1 == [e EXCEPT !.trades = Append(@, trade)]
        e2 == update_position_and_pnl(e1, trade, market_data)
    IN  notify_strategy(e2, trade)

fill_order(e, order, market_data, fill_price) ==
    LET slippage == calculate_slippage(DefaultBaseSlippage, order, DefaultVolatility)
        trade == NewTrade(order, apply_slippage(order, fill_price, slippage), slippage)
        e1 == [e EXCEPT !.trades = Append(@, trade)]
        e2 == update_position_and_pnl(e1, trade, market_data)
    IN  notify_strategy(e2, trade)

Result(e, e1, order, m) ==
    [order |-> order, filled |-> m.filled, fill_price |-> m.fill_price,
     best_bid |-> get_best_bid(e.order_books[order.symbol]),
     best_ask |-> get_best_ask(e.order_books[order.symbol]),
     before |-> Snapshot(e), after |-> Snapshot(e1),
     on_trade_saw |-> SubSeq(e1.seen, Len(e.seen) + 1, Len(e1.seen))]

\* a process_order that rests an unfilled order with its strategy
process_order_resting(e, order, market_data) ==
    LET m == match(e.order_books[order.symbol], order)
        e1 == IF m.filled THEN fill_order(e, order, market_data, m.fill_price)
              ELSE [e EXCEPT !.strategies[order.symbol].outstanding_orders =
                                 (order.id :> order) @@ @]
    IN  [e1 EXCEPT !.results = Append(@, Result(e, e1, order, m))]

process_order(e, order, market_data) ==
    LET m == match(e.order_books[order.symbol], order)
        e1 == IF m.filled THEN fill_order(e, order, market_data, m.fill_price) ELSE e
    IN  [e1 EXCEPT !.results = Append(@, Result(e, e1, order, m))]

\* a loop that drops the orders of a tick once the recorded latencies pass 2 ms
RECURSIVE process_orders_within_budget(_, _, _)
process_orders_within_budget(e, orders, market_data) ==
    IF orders = <<>> \/ Len(SelectSeq(e.latency_measurements, LAMBDA ms : ms > 2)) > 0 THEN e
    ELSE LET e1 == process_order(e, Head(orders), market_data)
         IN  process_orders_within_budget([e1 EXCEPT !.orders_processed = @ + 1],
                                          Tail(orders), market_data)

\* a loop that counts an order only when it filled
RECURSIVE process_orders_counting_fills(_, _, _)
process_orders_counting_fills(e, orders, market_data) ==
    IF orders = <<>> THEN e
    ELSE LET e1 == process_order(e, Head(orders), market_data)
             filled == Len(e1.trades) > Len(e.trades)
         IN  process_orders_counting_fills(
                 [e1 EXCEPT !.orders_processed = IF filled THEN @ + 1 ELSE @],
                 Tail(orders), market_data)

\* for order in orders: self.process_order(order, data); self.orders_processed += 1
RECURSIVE process_orders(_, _, _)
process_orders(e, orders, market_data) ==
    IF orders = <<>> THEN e
    ELSE LET e1 == process_order(e, Head(orders), market_data)
         IN  process_orders([e1 EXCEPT !.orders_processed = @ + 1], Tail(orders), market_data)

\* the cache after cache_market_data; setex_ok is whether the write went through
cache_market_data(client, store, data, setex_ok) ==
    IF client = "none" THEN store
    ELSE IF setex_ok
         THEN (data.symbol :> [bid |-> data.bid, ask |-> data.ask, bid_size |-> data.bid_size,
                               ask_size |-> data.ask_size, timestamp |-> data.timestamp])
                  @@ store
         ELSE store

\* a cache whose failed write leaves cache_market_data as an exception
cache_raises_on_failure(client, setex_ok) == client = "connected" /\ ~setex_ok

\* whether cache_market_data raises: its try / except Exception swallows a failed write
cache_raises(client, setex_ok) == FALSE

\* the engine after process_market_data, the cache and the latency series aside
\* a process_market_data that opens a book for a symbol it has not seen
process_market_data_opening_books(e, data) ==
    IF data.symbol \in DOMAIN e.order_books
    THEN LET e1 == [e EXCEPT !.order_books[data.symbol] = update(@, data)]
         IN  IF data.symbol \in DOMAIN e1.strategies
             THEN LET g == generate_orders(e1.strategies[data.symbol], data, data.timestamp)
                      e2 == [e1 EXCEPT !.strategies[data.symbol] = g.strategy,
                                       !.emitted[data.symbol] = @ \o g.orders]
                  IN  process_orders(e2, g.orders, data)
             ELSE e1
    ELSE [e EXCEPT !.order_books =
                       (data.symbol :> update(NewOrderBook(data.symbol), data)) @@ @]

\* a process_market_data that refreshes every book from the tick
process_market_data_updating_all_books(e, data) ==
    IF data.symbol \in DOMAIN e.order_books
    THEN LET e1 == [e EXCEPT !.order_books =
                        [symbol \in DOMAIN @ |-> update(@[symbol], data)]]
         IN  IF data.symbol \in DOMAIN e1.strategies
             THEN LET g == generate_orders(e1.strategies[data.symbol], data, data.timestamp)
                      e2 == [e1 EXCEPT !.strategies[data.symbol] = g.strategy,
                                       !.emitted[data.symbol] = @ \o g.orders]
                  IN  process_orders(e2, g.orders, data)
             ELSE e1
    ELSE e

process_market_data(e, data) ==
    IF data.symbol \in DOMAIN e.order_books
    THEN LET e1 == [e EXCEPT !.order_books[data.symbol] = update(@, data)]
         IN  IF data.symbol \in DOMAIN e1.strategies
             THEN LET g == generate_orders(e1.strategies[data.symbol], data, data.timestamp)
                      e2 == [e1 EXCEPT !.strategies[data.symbol] = g.strategy,
                                       !.emitted[data.symbol] = @ \o g.orders]
                  IN  process_orders(e2, g.orders, data)
             ELSE e1
    ELSE e

add_strategy(e, symbol, strategy) ==
    [e EXCEPT !.strategies = (symbol :> strategy) @@ @,
              !.order_books = (symbol :> NewOrderBook(symbol)) @@ @,
              !.positions = (symbol :> 0) @@ @,
              !.on_trade_calls = (symbol :> 0) @@ @,
              !.emitted = (symbol :> <<>>) @@ @]

----------------------------------------------------------------------------
(* BacktestEngine.calculate_performance_metrics.  A quotient is kept as the  *)
(* pair [num, den] it is the quotient of; the duration of a run is a whole   *)
(* number of milliseconds and a latency reading a whole number of ms.        *)
(* Two fields are kept as the data they are computed from, their values      *)
(* lying outside the wide numbers: total_slippage as the list of the         *)
(* [slippage, price, quantity] whose products it sums, sharpe_ratio as the   *)
(* list of trade P&Ls whose mean over standard deviation it is.              *)

\* trade.quantity * trade.price * (1 if trade.side == 'SELL' else -1)
\* a per-trade P&L that forgets the side
trade_pnl_unsigned(trade) ==
    WTimes(trade.price, trade.quantity)

trade_pnl(trade) ==
    WTimes(trade.price, IF trade.side = "SELL" THEN trade.quantity ELSE -trade.quantity)

RECURSIVE SumQuantity(_)
SumQuantity(seq) ==
    IF seq = <<>> THEN 0 ELSE Head(seq).quantity + SumQuantity(Tail(seq))

\* a scan that measures every drawdown from the starting peak
RECURSIVE drawdown_scan_fixed_peak(_, _)
drawdown_scan_fixed_peak(history, acc) ==
    IF history = <<>> THEN acc
    ELSE LET running_pnl == Head(history)[2]
             drawdown == WSub(acc.peak_pnl, running_pnl)
         IN  drawdown_scan_fixed_peak(Tail(history),
                 [peak_pnl |-> acc.peak_pnl,
                  max_drawdown |-> IF WLess(acc.max_drawdown, drawdown) THEN drawdown
                                   ELSE acc.max_drawdown])

\* the forward scan over pnl_history: [peak_pnl, max_drawdown]
RECURSIVE drawdown_scan(_, _)
drawdown_scan(history, acc) ==
    IF history = <<>> THEN acc
    ELSE LET running_pnl == Head(history)[2]
             peak == IF WLess(acc.peak_pnl, running_pnl) THEN running_pnl ELSE acc.peak_pnl
             drawdown == WSub(peak, running_pnl)
         IN  drawdown_scan(Tail(history),
                 [peak_pnl |-> peak,
                  max_drawdown |-> IF WLess(acc.max_drawdown, drawdown) THEN drawdown
                                   ELSE acc.max_drawdown])

\* len([pnl for pnl in trade_pnls if pnl > 0]) and the same for pnl < 0
winning_trades(seq) == Cardinality({i \in 1..Len(seq) : WLess(WZero, trade_pnl(seq[i]))})
losing_trades(seq) == Cardinality({i \in 1..Len(seq) : WLess(trade_pnl(seq[i]), WZero)})

Ratio(num, den) == [num |-> num, den |-> den]

RECURSIVE Sum(_)
Sum(seq) == IF seq = <<>> THEN 0 ELSE Head(seq) + Sum(Tail(seq))

RECURSIVE WSum(_)
WSum(seq) == IF seq = <<>> THEN WZero ELSE WAdd(Head(seq), WSum(Tail(seq)))

\* trade_pnls
trade_pnls(seq) == [i \in 1..Len(seq) |-> trade_pnl(seq[i])]

\* the terms abs(trade.slippage * trade.price * trade.quantity) of total_slippage
slippage_terms(seq) ==
    [i \in 1..Len(seq) |->
        [slippage |-> seq[i].slippage, price |-> seq[i].price, quantity |-> seq[i].quantity]]

\* avg_trade_pnl / std_trade_pnl if std_trade_pnl > 0 else 0; the standard
\* deviation is 0 for a single trade and for equal trade P&Ls
sharpe_ratio(pnls) ==
    IF Len(pnls) > 1 /\ \E i, j \in 1..Len(pnls) : pnls[i] # pnls[j]
    THEN [mean_over_std_of |-> pnls]
    ELSE [mean_over_std_of |-> <<>>]

\* hit_rate=hit_rate * 100, hit_rate = winning_trades / len(trade_pnls)
hit_rate(winners, total) == Ratio(winners * 100, total)

\* a calculation that consumes the latency series it averages
metrics_state_draining(e) == [e EXCEPT !.latency_measurements = <<>>]

\* the engine after calculate_performance_metrics: the method assigns no attribute
metrics_state(e) == e

\* a throughput that counts trades instead of orders
throughput_of_trades(e, duration) ==
    IF duration > 0 THEN Ratio(Len(e.trades) * 1000, duration) ELSE Ratio(0, 1)

\* self.orders_processed / duration if duration > 0 else 0, duration in ms
throughput(e, duration) ==
    IF duration > 0 THEN Ratio(e.orders_processed * 1000, duration) ELSE Ratio(0, 1)

\* np.mean(self.latency_measurements) if self.latency_measurements else 0
avg_latency(e) ==
    IF e.latency_measurements # <<>>
    THEN Ratio(Sum(e.latency_measurements), Len(e.latency_measurements))
    ELSE Ratio(0, 1)

\* the PerformanceMetrics of the early return: every field 0
zero_metrics ==
    [total_pnl |-> WZero, realized_pnl |-> WZero, unrealized_pnl |-> WZero,
     total_trades |-> 0, winning_trades |-> 0, losing_trades |-> 0,
     avg_trade_pnl |-> Ratio(WZero, 1), max_drawdown |-> WZero,
     sharpe_ratio |-> [mean_over_std_of |-> <<>>],
     hit_rate |-> Ratio(0, 1), total_slippage |-> <<>>,
     avg_slippage |-> Ratio(<<>>, 1), volume_traded |-> 0,
     throughput_orders_per_sec |-> Ratio(0, 1), avg_latency_ms |-> Ratio(0, 1)]

\* the calculation below the early return, with its own guards against empty lists
compute_metrics(e, duration) ==
    [total_pnl |-> e.current_pnl, realized_pnl |-> e.current_pnl, unrealized_pnl |-> WZero,
     total_trades |-> Len(e.trades),
     winning_trades |-> winning_trades(e.trades),
     losing_trades |-> losing_trades(e.trades),
     avg_trade_pnl |-> IF e.trades # <<>>
                       THEN Ratio(WSum(trade_pnls(e.trades)), Len(e.trades))
                       ELSE Ratio(WZero, 1),
     max_drawdown |-> drawdown_scan(e.pnl_history,
                          [peak_pnl |-> WZero, max_drawdown |-> WZero]).max_drawdown,
     sharpe_ratio |-> sharpe_ratio(trade_pnls(e.trades)),
     hit_rate |-> IF e.trades # <<>>
                  THEN hit_rate(winning_trades(e.trades), Len(e.trades))
                  ELSE Ratio(0, 1),
     total_slippage |-> slippage_terms(e.trades),
     avg_slippage |-> IF e.trades # <<>>
                      THEN Ratio(slippage_terms(e.trades), Len(e.trades))
                      ELSE Ratio(<<>>, 1),
     volume_traded |-> SumQuantity(e.trades),
     throughput_orders_per_sec |-> throughput(e, duration),
     avg_latency_ms |-> avg_latency(e)]

\* a calculation without the early return for an empty trade list
calculate_performance_metrics_without_return(e, duration) == compute_metrics(e, duration)

calculate_performance_metrics(e, duration) ==
    IF e.trades = <<>> THEN zero_metrics ELSE compute_metrics(e, duration)

----------------------------------------------------------------------------
(* The inputs of a run. *)

MarketData(symbol, bid, ask, bid_size, ask_size, timestamp) ==
    [symbol |-> symbol, bid |-> bid, ask |-> ask, bid_size |-> bid_size,
     ask_size |-> ask_size, timestamp |-> timestamp, trade_price |-> 0, trade_size |-> 0]

\* 50.0 in price units
MidPrice == 50 * 100 * 100

\* a tick around 50.0 with ask - bid = 2 * half
Around(symbol, half, bid_size, ask_size, timestamp) ==
    MarketData(symbol, MidPrice - half, MidPrice + half, bid_size, ask_size, timestamp)

\* "A" and "B" are registered with add_strategy during set-up, "X" never is
Symbols == {"A", "B"}

TicksA ==
    { Around("A", 150, 50, 0, 2),        \* both quotes of a flat strategy inside the 0.1% band
      Around("A", 170, 500, 500, 1),
      Around("A", 300, 0, 50, 1),        \* only the BUY quote inside the band
      Around("A", 1000, 500, 500, 3),    \* both quotes far from the touch
      Around("A", 100, 500, 500, 2),     \* ask - bid = 0.02: quotes meet
      MarketData("A", 98 * 100, 100 * 100, 500, 500, 2),   \* 0.98 / 1.00: a narrow, cheap market
      MarketData("A", 0, MidPrice, 500, 500, 1),   \* no bid
      MarketData("A", MidPrice, 0, 500, 500, 3) }  \* no ask

TicksB ==
    { Around("B", 150, 500, 500, 2),
      Around("B", 1000, 500, 500, 1) }

TicksX ==
    { Around("X", 150, 500, 500, 1) }

MarketTicks == TicksA \cup TicksB \cup TicksX

\* <<spread_bps, max_position, inventory_target>> of the strategies of a symbol
Configs(symbol) ==
    IF symbol = "A"
    THEN { <<2, 1000, 0>>,      \* the defaults of MarketMakingStrategy
           <<2, 100, 0>>,       \* one lot reaches the limit
           <<2, 50, 0>>,        \* a limit below one lot
           <<50, 100, 100>>,    \* a wide spread and a nonzero inventory target
           <<2, 0, 0>>,         \* max_position = 0
           <<2, 0, 100>> }      \* max_position = 0 with a nonzero inventory target
    ELSE { <<2, 1000, 0>> }

\* the wall-clock readings of the latency instrumentation, in ms
Latencies == {1}

\* whether a cache write goes through
SetexOutcomes == IF redis_client = "connected" THEN BOOLEAN ELSE {TRUE}

----------------------------------------------------------------------------
(* MarketDataProcessor (src/market_processor.py). The compiled order book of *)
(* the binding layer is seen only through add_order: a book is the list of   *)
(* the orders handed to it.                                                  *)

\* MarketDataProcessor.__init__; loop_i is the local i of the simulation loop,
\* <<>> while unbound
NewProcessor ==
    [order_books |-> EmptyDict, order_counter |-> 1, total_orders |-> 0,
     price_history |-> EmptyDict, snapshots |-> <<>>, loop_i |-> <<>>, consumed |-> 0,
     op |-> "init", raised |-> FALSE, result |-> EmptyDict, tick_data |-> <<>>,
     broke_at |-> <<>>]

create_order_book(p, symbol) ==
    IF symbol \notin DOMAIN p.order_books
    THEN [p EXCEPT !.order_books = (symbol :> <<>>) @@ @,
                   !.price_history = (symbol :> <<>>) @@ @]
    ELSE p

\* half_spread = current_price * (spread_bps / 10000) / 2
calculate_spread_orders(current_price, spread_bps) ==
    [bid_price |-> current_price - (current_price * spread_bps) \div 20000,
     ask_price |-> current_price + (current_price * spread_bps) \div 20000]

HftOrder(id, symbol, side, price, quantity) ==
    [id |-> id, symbol |-> symbol, side |-> side, type |-> "LIMIT", price |-> price,
     quantity |-> quantity]

\* the bid/ask pair at 10 bps around the tick's price; two ids are drawn
create_market_making_orders(p, tick, quantity) ==
    LET quotes == calculate_spread_orders(tick.price, 10)
    IN  [orders |-> << HftOrder(p.order_counter, tick.symbol, "BUY", quotes.bid_price,
                                quantity),
                       HftOrder(p.order_counter + 1, tick.symbol, "SELL", quotes.ask_price,
                                quantity) >>,
         processor |-> [p EXCEPT !.order_counter = @ + 2]]

LastN(seq, n) == IF Len(seq) > n THEN SubSeq(seq, Len(seq) - n + 1, Len(seq)) ELSE seq

\* one aggressive order when the 5-tick momentum exceeds 0.1%
create_momentum_orders(p, tick, quantity) ==
    LET history == IF tick.symbol \in DOMAIN p.price_history
                   THEN p.price_history[tick.symbol] ELSE <<>>
        prices == LastN(Append(history, tick.price), 20)
        p1 == [p EXCEPT !.price_history = (tick.symbol :> prices) @@ @]
        n == Len(prices)
    IN  IF n < 5 THEN [orders |-> <<>>, processor |-> p1]
        ELSE LET change == prices[n] - prices[n - 4]
                 side == IF change > 0 THEN "BUY" ELSE "SELL"
                 price_adjustment == (tick.price * 5) \div 10000
                 order_price == IF side = "BUY" THEN tick.price + price_adjustment
                                ELSE tick.price - price_adjustment
             IN  IF Abs(change) * 1000 > prices[n - 4]
                 THEN [orders |-> << HftOrder(p1.order_counter, tick.symbol, side,
                                              order_price, quantity) >>,
                       processor |-> [p1 EXCEPT !.order_counter = @ + 1]]
                 ELSE [orders |-> <<>>, processor |-> p1]

\* book.add_order(order); self.metrics.total_orders += 1, for each order
submit_orders(p, symbol, orders, i) ==
    [p EXCEPT !.order_books[symbol] =
                  @ \o [k \in 1..Len(orders) |-> [order |-> orders[k], tick_number |-> i]],
              !.total_orders = @ + Len(orders)]

\* the body of the simulation loop for tick number i (from 0); draw holds the
\* readings of random.random(), in hundredths, and of random.randint
simulate_tick(p, i, tick, draw) ==
    LET p1 == create_order_book(p, tick.symbol)
        made == IF draw.strategy_choice < 60
                THEN create_market_making_orders(p1, tick, draw.quantity)
                ELSE IF draw.strategy_choice < 90
                THEN create_momentum_orders(p1, tick, draw.quantity)
                ELSE [orders |-> <<>>, processor |-> p1]
        p2 == submit_orders(made.processor, tick.symbol, made.orders, i)
        p3 == IF i % 50 = 0
              THEN [p2 EXCEPT !.snapshots =
                        Append(@, [tick_number |-> i, timestamp |-> tick.timestamp,
                                   price |-> tick.price])]
              ELSE p2
    IN  [p3 EXCEPT !.consumed = @ + 1]

\* for i, tick in enumerate(tick_data): clock[i + 1] is the elapsed time read at
\* the top of iteration i
RECURSIVE simulate_loop(_, _, _, _, _, _)
simulate_loop(p, i, tick_data, duration_seconds, clock, draws) ==
    IF i >= Len(tick_data) THEN p
    ELSE LET p1 == [p EXCEPT !.loop_i = <<i>>]
         IN  IF clock[i + 1] > duration_seconds
             THEN [p1 EXCEPT !.broke_at = <<i>>]
             ELSE simulate_loop(simulate_tick(p1, i, tick_data[i + 1], draws[i + 1]), i + 1,
                                tick_data, duration_seconds, clock, draws)

\* the returned dict reads i after the loop: a NameError while i is unbound
simulate_realistic_trading(p, tick_data, duration_seconds, clock, draws) ==
    LET p1 == simulate_loop([p EXCEPT !.loop_i = <<>>, !.consumed = 0, !.snapshots = <<>>,
                                      !.broke_at = <<>>],
                            0, tick_data, duration_seconds, clock, draws)
    IN  IF p1.loop_i = <<>>
        THEN [p1 EXCEPT !.op = "simulate", !.tick_data = tick_data, !.raised = TRUE,
                        !.result = EmptyDict]
        ELSE [p1 EXCEPT !.op = "simulate", !.tick_data = tick_data, !.raised = FALSE,
                        !.result = [ticks_processed |-> p1.loop_i[1] + 1,
                                    snapshots |-> p1.snapshots,
                                    final_metrics |-> EmptyDict]]

----------------------------------------------------------------------------
(* The FIX parser stress test of the pipeline (src/run_hft_pipeline.py): the *)
(* generated messages are cut into batches, one parser thread per batch, and *)
(* every thread adds to the counters messages_parsed and parse_errors that   *)
(* the threads share.                                                        *)

\* num_threads = 8
NumThreads == 8
Threads == 0..(NumThreads - 1)

\* the tags validated by the parser
RequiredFields == {"8", "35", "55", "54", "38", "44"}

\* the tags of a generated NewOrderSingle message
GeneratedFields == {"8", "9", "35", "49", "56", "11", "55", "54", "38", "40", "44", "10"}

\* the locals of run_fix_parser_stress_test before any message is generated
NewParserRun ==
    [phase |-> "init", fix_messages |-> <<>>, messages_parsed |-> 0, parse_errors |-> 0,
     batch |-> [t \in Threads |-> <<>>], next |-> [t \in Threads |-> 1],
     loaded |-> [t \in Threads |-> <<>>]]

\* fix_messages[start_idx:end_idx] of thread i, as indices from 1
batch_of(i, message_count) ==
    LET batch_size == message_count \div NumThreads
        start_idx == i * batch_size
        end_idx == IF i < NumThreads - 1 THEN start_idx + batch_size ELSE message_count
    IN  [k \in 1..(end_idx - start_idx) |-> start_idx + k]

\* the messages are generated, the batches cut and the threads started
start_parsing(p, message_count) ==
    [p EXCEPT !.phase = "parsing",
              !.fix_messages = [i \in 1..message_count |-> GeneratedFields],
              !.batch = [t \in Threads |-> batch_of(t, message_count)]]

\* all(field in fields for field in required_fields)
is_valid(fields) == RequiredFields \subseteq fields

\* the counter the thread is about to add to
counter_of(p, t) ==
    IF is_valid(p.fix_messages[p.batch[t][p.next[t]]]) THEN "messages_parsed"
    ELSE "parse_errors"

\* the thread parses its next message and reads the counter it will add to
load_counter(p, t) ==
    [p EXCEPT !.loaded[t] = << IF counter_of(p, t) = "messages_parsed" THEN p.messages_parsed
                               ELSE p.parse_errors >>]

\* the thread writes back the value it read, plus one, and moves to its next message
store_counter(p, t) ==
    IF counter_of(p, t) = "messages_parsed"
    THEN [p EXCEPT !.messages_parsed = p.loaded[t][1] + 1, !.loaded[t] = <<>>,
                   !.next[t] = @ + 1]
    ELSE [p EXCEPT !.parse_errors = p.loaded[t][1] + 1, !.loaded[t] = <<>>,
                   !.next[t] = @ + 1]

\* the thread has run through its batch
finished(p, t) == p.next[t] > Len(p.batch[t])

----------------------------------------------------------------------------
(* PythonHftEngine (src/python/hft_python_bindings.py), together            *)

(* with the caller of its methods and the threads its market making starts. *)

\* quote_size: int = 1000
DefaultQuoteSize == 1000

\* PythonHftEngine.__init__; the engine has no market_making_thread attribute
\* (written 0 here) until market making is first started.  The last three
\* fields are the observer's: stop() has returned and nothing was started since,
\* an order or trade was created in such a state, and market making was started
\* while an earlier loop was still alive.
NewPythonHftEngine ==
    [is_running |-> FALSE, orders |-> <<>>, trades |-> <<>>, next_order_id |-> 1,
     threads |-> <<>>, market_making_thread |-> 0,
     caller |-> "idle", stopped |-> FALSE, created_after_stop |-> FALSE,
     overlapped |-> FALSE]

\* create_order: the order is stored under next_order_id, which moves on
create_order(e, symbol, side, quantity) ==
    [e EXCEPT !.orders = Append(@, [id |-> e.next_order_id, symbol |-> symbol, side |-> side,
                                    order_type |-> "LIMIT", quantity |-> quantity,
                                    filled_quantity |-> 0, status |-> "PENDING"]),
              !.next_order_id = @ + 1,
              !.created_after_stop = @ \/ e.stopped]

\* execute_trade: a trade is appended and the order's fill recorded
execute_trade(e, id, quantity) ==
    LET order == e.orders[id]
        filled == order.filled_quantity + quantity
    IN  [e EXCEPT !.trades = Append(@, [symbol |-> order.symbol, side |-> order.side,
                                        quantity |-> quantity]),
                  !.orders[id].filled_quantity = filled,
                  !.orders[id].status = IF filled >= order.quantity THEN "FILLED"
                                        ELSE "PARTIALLY_FILLED",
                  !.created_after_stop = @ \/ e.stopped]

\* submit_order of a LIMIT order; hash_hit is hash(symbol + str(time.time())) % 3 == 0
submit_order(e, id, hash_hit) ==
    IF hash_hit
    THEN LET quantity == e.orders[id].quantity
         IN  execute_trade(e, id, Min(quantity, quantity \div 2 + 1))
    ELSE e

\* start_market_making: the flag is raised, and a new thread running the loop
\* takes the place of whatever market_making_thread held
start_market_making(e, symbol, quote_size) ==
    [e EXCEPT !.is_running = TRUE,
              !.threads = Append(@, [symbol |-> symbol, quote_size |-> quote_size,
                                     pc |-> "while", bid_order |-> 0, ask_order |-> 0]),
              !.market_making_thread = Len(e.threads) + 1,
              !.stopped = FALSE,
              !.overlapped = @ \/ \E t \in 1..Len(e.threads) : e.threads[t].pc # "done"]

\* stop, up to the join: the flag is lowered; without a thread stop returns
stop_begin(e) ==
    IF e.market_making_thread = 0
    THEN [e EXCEPT !.is_running = FALSE, !.stopped = TRUE]
    ELSE [e EXCEPT !.is_running = FALSE, !.caller = "join"]

\* market_making_thread.join() can return once that thread has ended
can_join(e) == e.threads[e.market_making_thread].pc = "done"

\* stop, from the join on
stop_return(e) == [e EXCEPT !.caller = "idle", !.stopped = TRUE]

\* one step of market_making_loop in thread t
loop_step(e, t, hash_hit) ==
    LET th == e.threads[t]
    IN  CASE th.pc = "while" ->
                 [e EXCEPT !.threads[t].pc = IF e.is_running THEN "create_bid" ELSE "done"]
          [] th.pc = "create_bid" ->
                 [create_order(e, th.symbol, "BUY", th.quote_size)
                     EXCEPT !.threads[t].pc = "create_ask",
                            !.threads[t].bid_order = e.next_order_id]
          [] th.pc = "create_ask" ->
                 [create_order(e, th.symbol, "SELL", th.quote_size)
                     EXCEPT !.threads[t].pc = "submit_bid",
                            !.threads[t].ask_order = e.next_order_id]
          [] th.pc = "submit_bid" ->
                 [submit_order(e, th.bid_order, hash_hit) EXCEPT !.threads[t].pc = "submit_ask"]
          [] th.pc = "submit_ask" ->
                 [submit_order(e, th.ask_order, hash_hit) EXCEPT !.threads[t].pc = "sleep"]
          [] th.pc = "sleep" ->
                 [e EXCEPT !.threads[t].pc = "while"]

----------------------------------------------------------------------------
(* The observer's record of the most recent call. *)

NoTick == MarketData("", 0, 0, 0, 0, 0)
Last(op, data, results) ==
    [op |-> op, data |-> data, before |-> Snapshot(Engine), results |-> results,
     cache_before |-> redis_store, setex_ok |-> TRUE, raised |-> FALSE]

----------------------------------------------------------------------------
(* The state machine. *)

\* BacktestEngine.__init__; the connection attempt succeeds or not
EngineInit(clients) ==
    /\ redis_client \in clients
    /\ redis_store = EmptyDict
    /\ order_books = EmptyDict
    /\ strategies = EmptyDict
    /\ trades = <<>>
    /\ pnl_history = <<>>
    /\ current_pnl = WZero
    /\ positions = EmptyDict
    /\ latency_measurements = <<>>
    /\ orders_processed = 0
    /\ on_trade_calls = EmptyDict
    /\ emitted = EmptyDict
    /\ stream = <<>>
    /\ calls = 0
    /\ last = Last("init", NoTick, <<>>)
    /\ processor = NewProcessor
    /\ parser = NewParserRun
    /\ bindings = NewPythonHftEngine

\* a run without a cache server: the connection attempt of __init__ fails
Init == EngineInit({"none"})

Commit(e) ==
    /\ order_books' = e.order_books
    /\ strategies' = e.strategies
    /\ trades' = e.trades
    /\ pnl_history' = e.pnl_history
    /\ current_pnl' = e.current_pnl
    /\ positions' = e.positions
    /\ orders_processed' = e.orders_processed
    /\ on_trade_calls' = e.on_trade_calls
    /\ emitted' = e.emitted

\* engine.add_strategy(symbol, MarketMakingStrategy(symbol, ...)), once per symbol
\* and before the run, as main() does
AddStrategy(symbol, config) ==
    /\ calls = 0
    /\ symbol \notin DOMAIN strategies
    /\ Commit(add_strategy(Engine, symbol, NewStrategy(symbol, config[1], config[2], config[3])))
    /\ last' = Last("add_strategy", NoTick, <<>>)
    /\ UNCHANGED <<parser, bindings, processor, redis_client, redis_store, latency_measurements, stream, calls>>

\* engine.process_market_data(data), one iteration of run_backtest's loop
Tick(data, setex_ok, latency_ms) ==
    /\ calls < MaxTicks
    /\ calls' = calls + 1
    /\ stream' = Append(stream, data)
    /\ redis_store' = cache_market_data(redis_client, redis_store, data, setex_ok)
    /\ LET raised == cache_raises(redis_client, setex_ok)
           e == IF raised THEN Engine ELSE process_market_data(Engine, data)
       IN  /\ Commit(e)
           /\ last' = [Last("tick", data, e.results) EXCEPT !.setex_ok = setex_ok,
                                                            !.raised = raised]
           /\ latency_measurements' =
                  IF /\ ~raised
                     /\ data.symbol \in DOMAIN order_books
                     /\ data.symbol \in DOMAIN strategies
                  THEN Append(latency_measurements, latency_ms)
                  ELSE latency_measurements
    /\ UNCHANGED <<parser, bindings, processor, redis_client>>

\* engine.process_order(order, market_data) called on its own, outside a tick
ProcessOrder(order) ==
    /\ calls < MaxTicks
    /\ order.symbol \in DOMAIN order_books
    /\ calls' = calls + 1
    /\ LET e == process_order(Engine, order, last.data)
       IN  /\ Commit(e)
           /\ last' = Last("order", last.data, e.results)
    /\ UNCHANGED <<parser, bindings, processor, redis_client, redis_store, latency_measurements, stream>>

Next ==
    \/ \E symbol \in Symbols : \E config \in Configs(symbol) : AddStrategy(symbol, config)
    \/ \E data \in MarketTicks : \E setex_ok \in SetexOutcomes : \E latency_ms \in Latencies :
           Tick(data, setex_ok, latency_ms)

\* the run of run_backtest: set-up, then one process_market_data call per tick
Spec == Init /\ [][Next]_vars

\* ticks that set the touch for orders submitted one by one
OrderTicks ==
    { Around("A", 0, 500, 500, 1),       \* bid = ask = 50.0
      Around("A", 150, 50, 0, 2),
      Around("A", 1000, 500, 500, 3) }   \* both quotes far from the touch

Order(side, type, quantity, price) ==
    [id |-> 0, symbol |-> "A", side |-> side, type |-> type, quantity |-> quantity,
     price |-> price, timestamp |-> 1]

\* with the touch at 50.0: 0.999 * ask = 49.95 and 1.001 * bid = 50.05
DirectOrders ==
    { Order("BUY", "LIMIT", 100, MidPrice - 501),
      Order("BUY", "LIMIT", 100, MidPrice - 500),
      Order("BUY", "LIMIT", 100, MidPrice),
      Order("BUY", "LIMIT", 100, MidPrice + 10),
      Order("BUY", "LIMIT", 100, MidPrice + 100),
      Order("BUY", "LIMIT", 0, MidPrice + 100),
      Order("BUY", "MARKET", 100, 0),
      Order("SELL", "LIMIT", 100, MidPrice + 501),
      Order("SELL", "LIMIT", 100, MidPrice + 500),
      Order("SELL", "LIMIT", 100, MidPrice),
      Order("SELL", "LIMIT", 100, MidPrice - 10),
      Order("SELL", "LIMIT", 100, 0),
      Order("SELL", "MARKET", 100, 0) }

NextOrders ==
    \/ AddStrategy("A", <<2, 1000, 0>>)
    \/ \E data \in OrderTicks : Tick(data, TRUE, 1)
    \/ \E order \in DirectOrders : ProcessOrder(order)

\* a caller that also submits orders of its own to process_order
SpecOrders == Init /\ [][NextOrders]_vars

\* a run with a cache server: the connection attempt of __init__ succeeds
InitCache == EngineInit({"connected"})

CacheTicks ==
    { Around("A", 150, 50, 0, 2),
      Around("A", 300, 0, 50, 1),
      Around("A", 1000, 500, 500, 3),
      MarketData("A", 0, MidPrice, 500, 500, 1),
      Around("X", 150, 500, 500, 1) }

CacheConfigs == { <<2, 1000, 0>>, <<2, 100, 0>> }

NextCache ==
    \/ \E config \in CacheConfigs : AddStrategy("A", config)
    \/ \E data \in CacheTicks : \E setex_ok \in SetexOutcomes : \E latency_ms \in Latencies :
           Tick(data, setex_ok, latency_ms)

\* the run of run_backtest with the cache connected; a write may fail at any tick
SpecCache == InitCache /\ [][NextCache]_vars

\* __init__ with the connection attempt going either way
InitAnyCache == EngineInit({"none", "connected"})

\* the same run with or without a cache
SpecAnyCache == InitAnyCache /\ [][NextCache]_vars

\* base_slippage_bps of a SlippageModel, in tenths of a basis point
BaseSlippages == {5, 10, 50}
\* volatility arguments, in hundredths
Volatilities == {0, 1, 50}
\* order quantities below, at and above the cap of the size factor
SlippageQuantities == {0, 100, 5000, 9900, 10000, 10100, 100000}

SlippageOrders ==
    { [id |-> 0, symbol |-> "A", side |-> "BUY", type |-> type, quantity |-> quantity,
       price |-> MidPrice, timestamp |-> 1] :
          type \in {"LIMIT", "MARKET"}, quantity \in SlippageQuantities }

\* SlippageModel(base_slippage_bps).calculate_slippage(order, market_data, volatility)
\* called on its own
CalculateSlippage(base_slippage, order, volatility) ==
    /\ calls < MaxTicks
    /\ calls' = calls + 1
    /\ last' = Last("slippage", last.data,
                    << [order |-> order, base_slippage |-> base_slippage,
                        volatility |-> volatility,
                        slippage |-> calculate_slippage(base_slippage, order, volatility)] >>)
    /\ UNCHANGED <<parser, bindings, processor, redis_client, redis_store, order_books, strategies, trades, pnl_history,
                   current_pnl, positions, latency_measurements, orders_processed,
                   on_trade_calls, emitted, stream>>

SlippageTicks ==
    { Around("A", 150, 50, 0, 2),
      Around("A", 1000, 500, 500, 3) }

NextSlippage ==
    \/ AddStrategy("A", <<2, 1000, 0>>)
    \/ \E data \in SlippageTicks : Tick(data, TRUE, 1)
    \/ \E base_slippage \in BaseSlippages : \E order \in SlippageOrders :
           \E volatility \in Volatilities :
               CalculateSlippage(base_slippage, order, volatility)

\* a run during which the slippage model is also asked directly
SpecSlippage == Init /\ [][NextSlippage]_vars

\* the duration argument of calculate_performance_metrics, in ms
Durations == {0, 2}

\* wall-clock readings that differ from tick to tick, in ms
MetricsLatencies == {1, 3}

MetricsTicks ==
    { Around("A", 150, 50, 0, 2),
      Around("A", 300, 0, 50, 1),
      Around("A", 1000, 500, 500, 3) }

\* engine.calculate_performance_metrics(duration); the observer keeps the snapshot
\* returned, and the one returned by the call before when that was the same call
CalculateMetrics(duration) ==
    /\ calls < MaxTicks
    /\ calls' = calls + 1
    /\ LET e == metrics_state(Engine)
           repeated == last.op = "metrics" /\ last.results[1].duration = duration
       IN  /\ Commit(e)
           /\ latency_measurements' = e.latency_measurements
           /\ last' = Last("metrics", last.data,
                           << [duration |-> duration,
                               metrics |-> calculate_performance_metrics(Engine, duration),
                               latency_before |-> latency_measurements,
                               repeated |-> repeated,
                               previous |-> IF repeated THEN last.results[1].metrics
                                            ELSE <<>>] >>)
    /\ UNCHANGED <<parser, bindings, processor, redis_client, redis_store, stream>>

NextMetrics ==
    \/ AddStrategy("A", <<2, 1000, 0>>)
    \/ \E data \in MetricsTicks : \E latency_ms \in MetricsLatencies :
           Tick(data, TRUE, latency_ms)
    \/ \E duration \in Durations : CalculateMetrics(duration)

\* a run whose caller asks for the metrics at any point, any number of times
SpecMetrics == Init /\ [][NextMetrics]_vars

----------------------------------------------------------------------------
(* Sanity of the arithmetic. *)

\* every division generate_orders performs on an enumerated tick is exact
SkewExact(strategy, data) ==
    /\ (strategy.spread_bps * (data.bid + data.ask)) % 20 = 0
    /\ strategy.max_position > 0 /\ data.ask - data.bid > 2 * PriceImprovement =>
           ((strategy.position - strategy.inventory_target) * spread_x1000(strategy, data))
               % (strategy.max_position * 10 * 1000) = 0

\* (a tick with ask - bid <= 0.02 yields no order whatever the skew is)
ArithmeticExact ==
    /\ \A d \in MarketTicks \cup OrderTicks :
           d.symbol \in DOMAIN strategies /\ d.bid > 0 /\ d.ask > 0
               => SkewExact(strategies[d.symbol], d)
    /\ \A d \in MarketTicks \cup OrderTicks : (d.bid + d.ask) % 2 = 0
    /\ \A i \in 1..Len(trades) : trades[i].quantity % 100 = 0

----------------------------------------------------------------------------
(* What the claims speak of. *)

Results == {last.results[i] : i \in 1..Len(last.results)}

\* the trades process_order appended while handling the order of result r
Appended(r) == SubSeq(r.after.trades, Len(r.before.trades) + 1, Len(r.after.trades))

Registered == DOMAIN strategies

TradesOf(symbol) == {i \in 1..Len(trades) : trades[i].symbol = symbol}

RECURSIVE NetQuantity(_, _)
NetQuantity(seq, symbol) ==
    IF seq = <<>> THEN 0
    ELSE (IF Head(seq).symbol # symbol THEN 0
          ELSE IF Head(seq).side = "BUY" THEN Head(seq).quantity ELSE -Head(seq).quantity)
         + NetQuantity(Tail(seq), symbol)

OrdersOf(strategy, data) == generate_orders(strategy, data, data.timestamp).orders

Sides(orders) == {orders[i].side : i \in 1..Len(orders)}

----------------------------------------------------------------------------
(* C1: for every BUY LIMIT order priced at or above the book's best ask,     *)
(* process_order appends exactly one Trade, of the order's quantity, whose   *)
(* execution price (Trade.price, after slippage) is at most the order's      *)
(* limit price.                                                              *)

BuyAtOrAboveAsk(r) ==
    r.order.side = "BUY" /\ r.order.type = "LIMIT" /\ r.order.price >= r.best_ask[1]

C1_BuyLimitAtAskFillsWithinLimit ==
    \A r \in Results :
        BuyAtOrAboveAsk(r) =>
            /\ Len(Appended(r)) = 1
            /\ Appended(r)[1].quantity = r.order.quantity
            /\ WLeq(Appended(r)[1].price, WInt(r.order.price))

----------------------------------------------------------------------------
(* C2: for every registered symbol the strategy's position equals the        *)
(* engine's positions[symbol] and equals the BUY quantity minus the SELL     *)
(* quantity of that symbol's trades, and on_trade has run exactly once per   *)
(* trade of the symbol.                                                      *)

C2_PositionsAgreeWithTrades ==
    \A symbol \in Registered :
        /\ strategies[symbol].position = positions[symbol]
        /\ positions[symbol] = NetQuantity(trades, symbol)
        /\ on_trade_calls[symbol] = Cardinality(TradesOf(symbol))

C2_Witness ==
    \E symbol \in Registered :
        /\ Cardinality(TradesOf(symbol)) >= 3
        /\ strategies[symbol].position # 0
        /\ \E i, j \in TradesOf(symbol) : trades[i].side = "BUY" /\ trades[j].side = "SELL"

----------------------------------------------------------------------------
(* C3: whenever a strategy's position is >= max_position, generate_orders    *)
(* returns no BUY order, for any tick; whenever its position is              *)
(* <= -max_position it returns no SELL order.                                *)

NoSideAtLimit(strategy, orders) ==
    /\ strategy.position >= strategy.max_position => "BUY" \notin Sides(orders)
    /\ strategy.position <= -strategy.max_position => "SELL" \notin Sides(orders)

C3_NoOrderBeyondPositionLimit ==
    /\ \A data \in MarketTicks :
           data.symbol \in Registered =>
               NoSideAtLimit(strategies[data.symbol], OrdersOf(strategies[data.symbol], data))
    /\ last.op = "tick" /\ last.data.symbol \in DOMAIN last.before.strategies =>
           NoSideAtLimit(last.before.strategies[last.data.symbol],
                         [i \in 1..Len(last.results) |-> last.results[i].order])

\* a tick met a strategy at its (positive) limit and drew a SELL but no BUY from it
C3_Witness ==
    /\ last.op = "tick" /\ last.data.symbol \in DOMAIN last.before.strategies
    /\ LET before == last.before.strategies[last.data.symbol]
       IN  /\ before.max_position > 0
           /\ before.position >= before.max_position
    /\ {r.order.side : r \in Results} = {"SELL"}

----------------------------------------------------------------------------
(* C4: after any sequence of OrderBook.update calls each side of the book    *)
(* holds exactly one price/size pair, and get_best_bid / get_best_ask return *)
(* the (bid, bid_size) / (ask, ask_size) of the most recent tick, nothing    *)
(* being kept of earlier ticks.                                              *)

LatestTick(symbol) ==
    LET at == {i \in 1..Len(stream) : stream[i].symbol = symbol}
    IN  stream[SetMax(at)]

C4_BookHoldsLatestTickOnly ==
    \A symbol \in DOMAIN order_books :
        (\E i \in 1..Len(stream) : stream[i].symbol = symbol) =>
            LET book == order_books[symbol]
                data == LatestTick(symbol)
            IN  /\ Cardinality(DOMAIN book.bids) = 1
                /\ Cardinality(DOMAIN book.asks) = 1
                /\ get_best_bid(book) = <<data.bid, data.bid_size>>
                /\ get_best_ask(book) = <<data.ask, data.ask_size>>

\* the latest tick of a symbol is worse on both sides than an earlier one
C4_Witness ==
    \E symbol \in DOMAIN order_books :
        \E i, j \in 1..Len(stream) :
            /\ i < j
            /\ stream[i].symbol = symbol
            /\ stream[j] = LatestTick(symbol)
            /\ stream[i].bid > stream[j].bid
            /\ stream[i].ask < stream[j].ask
            /\ stream[j].bid > 0

----------------------------------------------------------------------------
(* C5: get_mid_price is (bid + ask) / 2 of the latest tick when that tick    *)
(* has bid > 0 (and a finite ask) and 0 otherwise; a book that was never     *)
(* updated reports best_bid = (0, 0), best_ask = (infinity, 0) and mid 0.    *)

C5_MidPriceAndSentinels ==
    \A symbol \in DOMAIN order_books :
        LET book == order_books[symbol]
        IN  IF \E i \in 1..Len(stream) : stream[i].symbol = symbol
            THEN LET data == LatestTick(symbol)
                 IN  IF data.bid > 0 /\ data.ask < Inf
                     THEN 2 * get_mid_price(book) = data.bid + data.ask
                     ELSE get_mid_price(book) = 0
            ELSE /\ get_best_bid(book) = <<0, 0>>
                 /\ get_best_ask(book) = <<Inf, 0>>
                 /\ get_mid_price(book) = 0

\* one book still empty, one with a two-sided tick, one whose latest tick has no bid
C5_Witness ==
    /\ \E symbol \in DOMAIN order_books : \A i \in 1..Len(stream) : stream[i].symbol # symbol
    /\ \E symbol \in DOMAIN order_books :
           /\ \E i \in 1..Len(stream) : stream[i].symbol = symbol
           /\ LatestTick(symbol).bid = 0
           /\ get_best_ask(order_books[symbol])[1] > 0
    /\ Len(stream) >= 2

----------------------------------------------------------------------------
(* C6: a BUY order fills iff the best ask is present (finite and > 0) and    *)
(* the order is MARKET or is LIMIT with price >= 0.999 * best_ask; before    *)
(* slippage the execution price is best_ask for MARKET, min(price, best_ask) *)
(* for a LIMIT priced >= best_ask and the order's own limit price for a      *)
(* LIMIT priced in [0.999 * best_ask, best_ask).                             *)

BuyRule(r) ==
    LET ask == r.best_ask[1]
        price == r.order.price
        fills == /\ ask > 0 /\ ask < Inf
                 /\ \/ r.order.type = "MARKET"
                    \/ r.order.type = "LIMIT" /\ price * 1000 >= ask * 999
    IN  /\ r.filled <=> fills
        /\ Len(Appended(r)) = IF fills THEN 1 ELSE 0
        /\ fills =>
               /\ r.order.type = "MARKET" => r.fill_price = ask
               /\ r.order.type = "LIMIT" /\ price >= ask => r.fill_price = Min(price, ask)
               /\ r.order.type = "LIMIT" /\ price < ask => r.fill_price = price
               /\ Appended(r)[1].price = TimesOnePlus(r.fill_price, Appended(r)[1].slippage)

C6_BuyFillRule == \A r \in Results : r.order.side = "BUY" => BuyRule(r)

\* a BUY LIMIT exactly 0.1% below the ask filled at its own price
C6_Witness ==
    \E r \in Results :
        /\ r.order.side = "BUY" /\ r.order.type = "LIMIT"
        /\ r.best_ask[1] < Inf
        /\ r.order.price * 1000 = r.best_ask[1] * 999
        /\ r.filled /\ r.fill_price = r.order.price

----------------------------------------------------------------------------
(* C7: a SELL order fills iff best_bid > 0 and the order is MARKET or is     *)
(* LIMIT with price <= 1.001 * best_bid; before slippage the execution price *)
(* is best_bid for MARKET, max(price, best_bid) for a LIMIT priced           *)
(* <= best_bid and the order's own limit price for a LIMIT priced in         *)
(* (best_bid, 1.001 * best_bid].                                             *)

SellRule(r) ==
    LET bid == r.best_bid[1]
        price == r.order.price
        fills == /\ bid > 0
                 /\ \/ r.order.type = "MARKET"
                    \/ r.order.type = "LIMIT" /\ price * 1000 <= bid * 1001
    IN  /\ r.filled <=> fills
        /\ Len(Appended(r)) = IF fills THEN 1 ELSE 0
        /\ fills =>
               /\ r.order.type = "MARKET" => r.fill_price = bid
               /\ r.order.type = "LIMIT" /\ price <= bid => r.fill_price = Max(price, bid)
               /\ r.order.type = "LIMIT" /\ price > bid => r.fill_price = price
               /\ Appended(r)[1].price = TimesOneMinus(r.fill_price, Appended(r)[1].slippage)

C7_SellFillRule == \A r \in Results : r.order.side = "SELL" => SellRule(r)

\* a SELL LIMIT below the bid filled at the bid
C7_Witness ==
    \E r \in Results :
        /\ r.order.side = "SELL" /\ r.order.type = "LIMIT"
        /\ r.order.price < r.best_bid[1]
        /\ r.filled /\ r.fill_price = r.best_bid[1]

----------------------------------------------------------------------------
(* C8: an order that does not match is dropped without trace: process_order  *)
(* leaves trades, pnl_history, current_pnl, positions, the order books and   *)
(* the strategies as they were, outstanding_orders stays empty, and the      *)
(* order cannot fill later: every trade a call appends belongs to an order   *)
(* handed to process_order, and filled, in that same call.                   *)

FilledResults == {i \in 1..Len(last.results) : last.results[i].filled}

C8_UnmatchedOrderLeavesNoTrace ==
    /\ \A r \in Results : ~r.filled => r.after = r.before
    /\ \A symbol \in Registered : strategies[symbol].outstanding_orders = EmptyDict
    /\ Len(trades) = Len(last.before.trades) + Cardinality(FilledResults)
    /\ \A r \in Results : \A i \in 1..Len(Appended(r)) :
           /\ r.filled
           /\ Appended(r)[i].order_id = r.order.id
           /\ Appended(r)[i].timestamp = r.order.timestamp

\* a tick whose BUY filled and whose SELL was dropped, after earlier trades
C8_Witness ==
    /\ last.op = "tick"
    /\ Len(last.before.trades) > 0
    /\ \E r \in Results : r.filled
    /\ \E r \in Results : ~r.filled /\ r.order.side = "SELL"

----------------------------------------------------------------------------
(* C9: for a strategy with zero inventory skew (position = inventory_target),*)
(* max_position > 0 and |position| < max_position, on any tick with bid > 0  *)
(* and ask - bid > 0.02, generate_orders returns exactly two LIMIT orders of *)
(* quantity 100: a BUY at bid + 0.01, then a SELL at ask - 0.01.             *)

Unskewed(strategy) ==
    /\ strategy.position = strategy.inventory_target
    /\ strategy.max_position > 0
    /\ Abs(strategy.position) < strategy.max_position

TwoSided(data) == data.bid > 0 /\ data.ask - data.bid > 200

ExpectedQuotes(strategy, data) ==
    << [id |-> strategy.order_id_counter + 1, symbol |-> strategy.symbol, side |-> "BUY",
        type |-> "LIMIT", quantity |-> 100, price |-> data.bid + 100,
        timestamp |-> data.timestamp],
       [id |-> strategy.order_id_counter + 2, symbol |-> strategy.symbol, side |-> "SELL",
        type |-> "LIMIT", quantity |-> 100, price |-> data.ask - 100,
        timestamp |-> data.timestamp] >>

\* bid = 100, ask = 100.2
ExampleTick == MarketData("A", 100 * 100 * 100, 1002 * 1000, 500, 500, 1)

C9_UnskewedQuotes ==
    /\ \A data \in MarketTicks :
           data.symbol \in Registered /\ Unskewed(strategies[data.symbol]) /\ TwoSided(data)
               => OrdersOf(strategies[data.symbol], data)
                      = ExpectedQuotes(strategies[data.symbol], data)
    /\ last.op = "tick" /\ last.data.symbol \in DOMAIN last.before.strategies
         /\ Unskewed(last.before.strategies[last.data.symbol]) /\ TwoSided(last.data)
           => [i \in 1..Len(last.results) |-> last.results[i].order]
                  = ExpectedQuotes(last.before.strategies[last.data.symbol], last.data)
    /\ LET orders == OrdersOf(NewStrategy("A", 2, 1000, 0), ExampleTick)
       IN  Len(orders) = 2 /\ orders[1].price = 1000100 /\ orders[2].price = 1001900

\* a flat strategy that has traded before quoted both sides of a tick
C9_Witness ==
    /\ last.op = "tick" /\ last.data.symbol \in DOMAIN last.before.strategies
    /\ Unskewed(last.before.strategies[last.data.symbol]) /\ TwoSided(last.data)
    /\ last.before.strategies[last.data.symbol].order_id_counter > 0
    /\ Len(last.results) = 2

----------------------------------------------------------------------------
(* C10: in a run over ticks of one registered symbol whose strategy starts   *)
(* flat (position 0, inventory_target 0), if every tick has bid > 0 and its  *)
(* quotes stay outside the relaxed-fill band (bid + 0.01 < 0.999 * ask and   *)
(* ask - 0.01 > 1.001 * bid), each tick adds exactly 2 to orders_processed   *)
(* and no Trade is ever created, so the metrics report total_trades = 0 and  *)
(* total_pnl = 0.                                                            *)

QuietTick(data) ==
    /\ data.bid > 0
    /\ (data.bid + 100) * 1000 < data.ask * 999
    /\ (data.ask - 100) * 1000 > data.bid * 1001

QuietRunOf(symbol) ==
    \A i \in 1..Len(stream) : stream[i].symbol = symbol /\ QuietTick(stream[i])

TwoOrdersPerTickNoTrade ==
    /\ orders_processed = 2 * Len(stream)
    /\ trades = <<>>
    /\ calculate_performance_metrics(Engine, 1).total_trades = 0
    /\ calculate_performance_metrics(Engine, 1).total_pnl = WZero

\* the claim as it is stated
C10_QuietRunAsStated ==
    \A symbol \in Registered :
        strategies[symbol].inventory_target = 0 /\ QuietRunOf(symbol)
            => TwoOrdersPerTickNoTrade

QuietTwoSidedRunOf(symbol) ==
    /\ QuietRunOf(symbol)
    /\ \A i \in 1..Len(stream) : stream[i].ask - stream[i].bid > 200

EmptyEngine ==
    [order_books |-> EmptyDict, strategies |-> EmptyDict, trades |-> <<>>,
     pnl_history |-> <<>>, current_pnl |-> WZero, positions |-> EmptyDict,
     orders_processed |-> 0, on_trade_calls |-> EmptyDict, latency_measurements |-> <<>>,
     emitted |-> EmptyDict, results |-> <<>>, seen |-> <<>>]

RECURSIVE run_backtest(_, _)
run_backtest(e, market_data_stream) ==
    IF market_data_stream = <<>> THEN e
    ELSE run_backtest(process_market_data(e, Head(market_data_stream)),
                      Tail(market_data_stream))

\* (99, 101), (100, 102), (101, 103) for a strategy with spread_bps=2, max_position=1000
ExampleRun ==
    run_backtest(add_strategy(EmptyEngine, "A", NewStrategy("A", 2, 1000, 0)),
                 << MarketData("A", 990000, 1010000, 500, 500, 1),
                    MarketData("A", 1000000, 1020000, 500, 500, 2),
                    MarketData("A", 1010000, 1030000, 500, 500, 3) >>)

\* the claim for a strategy with max_position > 0 and ticks with ask - bid > 0.02
C10_QuietRun ==
    /\ \A symbol \in Registered :
           /\ strategies[symbol].inventory_target = 0
           /\ strategies[symbol].max_position > 0
           /\ QuietTwoSidedRunOf(symbol)
           => TwoOrdersPerTickNoTrade
    /\ ExampleRun.orders_processed = 6
    /\ ExampleRun.trades = <<>>
    /\ calculate_performance_metrics(ExampleRun, 1).total_trades = 0
    /\ calculate_performance_metrics(ExampleRun, 1).total_pnl = WZero

\* three quiet ticks went through a flat strategy that may trade
C10_Witness ==
    \E symbol \in Registered :
        /\ strategies[symbol].inventory_target = 0
        /\ strategies[symbol].max_position > 0
        /\ QuietTwoSidedRunOf(symbol)
        /\ Len(stream) >= 3
        /\ orders_processed >= 6

----------------------------------------------------------------------------
(* C11: for a tick with bid <= 0 or ask <= 0, generate_orders returns an     *)
(* empty list and leaves the strategy's position and order_id_counter        *)
(* unchanged; the engine then creates no trade and does not change           *)
(* orders_processed, trades, pnl_history or positions for that tick, and the *)
(* call completes.                                                           *)

NoMarket(data) == data.bid <= 0 \/ data.ask <= 0

\* ticks with a negative side and with no side at all
NoMarketTicks ==
    { MarketData("A", -100, MidPrice, 500, 500, 2),
      MarketData("A", MidPrice, -100, 500, 500, 2),
      MarketData("A", 0, 0, 0, 0, 2) }

C11_NoMarketTickIsInert ==
    /\ \A data \in MarketTicks \cup NoMarketTicks :
           data.symbol \in Registered /\ NoMarket(data) =>
               generate_orders(strategies[data.symbol], data, data.timestamp)
                   = [orders |-> <<>>, strategy |-> strategies[data.symbol]]
    /\ last.op = "tick" /\ NoMarket(last.data) =>
           /\ last.results = <<>>
           /\ strategies = last.before.strategies
           /\ trades = last.before.trades
           /\ pnl_history = last.before.pnl_history
           /\ positions = last.before.positions
           /\ orders_processed = last.before.orders_processed
           /\ stream[Len(stream)] = last.data

\* a no-market tick reached a strategy that holds a position and would quote
\* the same tick had it a bid
C11_Witness ==
    /\ last.op = "tick" /\ NoMarket(last.data)
    /\ last.data.symbol \in DOMAIN last.before.strategies
    /\ LET before == last.before.strategies[last.data.symbol]
       IN  /\ before.position # 0
           /\ before.order_id_counter > 0
           /\ Abs(before.position) < before.max_position
    /\ last.before.trades # <<>>

----------------------------------------------------------------------------
(* C12: the ids of the orders emitted by one strategy are strictly           *)
(* increasing across all generate_orders calls (consecutive integers         *)
(* starting at 1, the BUY of a tick before its SELL), so no two orders of a  *)
(* strategy share an id and order_id_counter always equals the number of     *)
(* orders that strategy has emitted.                                         *)

C12_OrderIdsCountEmittedOrders ==
    /\ \A symbol \in Registered :
           LET orders == emitted[symbol]
           IN  /\ \A i \in 1..Len(orders) : orders[i].id = i
               /\ \A i, j \in 1..Len(orders) : i < j => orders[i].id < orders[j].id
               /\ strategies[symbol].order_id_counter = Len(orders)
    /\ last.op = "tick" /\ Len(last.results) = 2 =>
           /\ last.results[1].order.side = "BUY"
           /\ last.results[2].order.side = "SELL"
           /\ last.results[2].order.id = last.results[1].order.id + 1

\* a strategy has emitted a lone order between two pairs
C12_Witness ==
    \E symbol \in Registered :
        LET orders == emitted[symbol]
        IN  /\ Len(orders) = 5
            /\ orders[2].timestamp # orders[3].timestamp
            /\ orders[3].timestamp # orders[4].timestamp
            /\ orders[4].side = "BUY" /\ orders[5].side = "SELL"

----------------------------------------------------------------------------
(* C13: within one process_market_data call the steps happen in a fixed      *)
(* order: cache write, order-book update, one generate_orders call (reading  *)
(* the position as it was before the tick), then the fill attempts in        *)
(* emission order; for each fill the Trade and its PnLRecord are appended    *)
(* and the engine position updated before the strategy's on_trade runs.      *)
(* Hence a fill in a tick never changes the quotes generated for that tick.  *)

CachedValue(data) ==
    [bid |-> data.bid, ask |-> data.ask, bid_size |-> data.bid_size,
     ask_size |-> data.ask_size, timestamp |-> data.timestamp]

\* the cache is written whatever the engine does with the tick afterwards
CacheWrittenFirst ==
    redis_store = IF redis_client = "connected" /\ last.setex_ok
                  THEN (last.data.symbol :> CachedValue(last.data)) @@ last.cache_before
                  ELSE last.cache_before

\* generate_orders and every fill attempt find the book of this tick
BookUpdatedBeforeOrders ==
    /\ get_best_bid(order_books[last.data.symbol]) = <<last.data.bid, last.data.bid_size>>
    /\ get_best_ask(order_books[last.data.symbol]) = <<last.data.ask, last.data.ask_size>>
    /\ \A r \in Results :
           /\ r.best_bid = <<last.data.bid, last.data.bid_size>>
           /\ r.best_ask = <<last.data.ask, last.data.ask_size>>

\* the orders of the tick are those of one call on the strategy as the tick found it
QuotesFromPositionBeforeTick ==
    LET g == generate_orders(last.before.strategies[last.data.symbol], last.data,
                             last.data.timestamp)
    IN  /\ [i \in 1..Len(last.results) |-> last.results[i].order] = g.orders
        /\ Len(last.results) > 0 =>
               last.results[1].before.strategies[last.data.symbol] = g.strategy

\* each attempt starts from the engine the previous one left, counted once
FillsInEmissionOrder ==
    /\ \A i \in 1..(Len(last.results) - 1) :
           last.results[i + 1].before =
               [last.results[i].after EXCEPT !.orders_processed = @ + 1]
    /\ Len(last.results) > 0 =>
           Snapshot(Engine) =
               [last.results[Len(last.results)].after EXCEPT !.orders_processed = @ + 1]

\* on_trade finds the trade, its P&L record and the engine position already booked
BookedBeforeOnTrade(r) ==
    IF r.filled
    THEN /\ Len(r.on_trade_saw) = 1
         /\ r.on_trade_saw[1].trades = r.after.trades
         /\ Len(r.after.trades) = Len(r.before.trades) + 1
         /\ r.on_trade_saw[1].pnl_history = r.after.pnl_history
         /\ Len(r.after.pnl_history) = Len(r.before.pnl_history) + 1
         /\ r.on_trade_saw[1].positions = r.after.positions
         /\ r.after.positions # r.before.positions
         /\ r.on_trade_saw[1].current_pnl = r.after.current_pnl
         /\ r.on_trade_saw[1].strategies = r.before.strategies
         /\ r.after.strategies # r.before.strategies
    ELSE r.on_trade_saw = <<>>

C13_StepsOfOneTick ==
    last.op = "tick" =>
        /\ CacheWrittenFirst
        /\ last.data.symbol \in DOMAIN last.before.strategies =>
               /\ BookUpdatedBeforeOrders
               /\ QuotesFromPositionBeforeTick
               /\ FillsInEmissionOrder
               /\ \A r \in Results : BookedBeforeOnTrade(r)
        /\ last.data.symbol \notin DOMAIN last.before.strategies =>
               last.results = <<>> /\ Snapshot(Engine) = last.before

\* both orders of a tick filled, the first fill moving the strategy off the
\* position the quotes were made from, and the cache write of the tick failed
C13_Witness ==
    /\ last.op = "tick"
    /\ redis_client = "connected" /\ ~last.setex_ok
    /\ last.cache_before # EmptyDict
    /\ Len(last.results) = 2
    /\ last.results[1].filled /\ last.results[2].filled
    /\ last.before.strategies[last.data.symbol].position # 0

----------------------------------------------------------------------------
(* C14: after every process_order, len(pnl_history) = len(trades) and the    *)
(* i-th PnLRecord carries the i-th trade's timestamp (which is the timestamp *)
(* of the tick that produced it); if the tick stream is non-decreasing in    *)
(* timestamp, the pnl_history timestamps are non-decreasing.                 *)

HistoryMatchesTrades(history, trade_list) ==
    /\ Len(history) = Len(trade_list)
    /\ \A i \in 1..Len(trade_list) : history[i][1] = trade_list[i].timestamp

NonDecreasing(seq) == \A i \in 1..(Len(seq) - 1) : seq[i] <= seq[i + 1]

C14_HistoryParallelsTrades ==
    /\ HistoryMatchesTrades(pnl_history, trades)
    /\ \A r \in Results : HistoryMatchesTrades(r.after.pnl_history, r.after.trades)
    /\ last.op = "tick" =>
           \A r \in Results : \A i \in 1..Len(Appended(r)) :
               Appended(r)[i].timestamp = last.data.timestamp
    /\ \A i \in 1..Len(trades) : \E k \in 1..Len(stream) :
           /\ stream[k].timestamp = trades[i].timestamp
           /\ stream[k].symbol = trades[i].symbol
    /\ NonDecreasing([k \in 1..Len(stream) |-> stream[k].timestamp]) =>
           NonDecreasing([i \in 1..Len(pnl_history) |-> pnl_history[i][1]])

\* fills of three ticks at rising timestamps, buys and sells among them
C14_Witness ==
    /\ NonDecreasing([k \in 1..Len(stream) |-> stream[k].timestamp])
    /\ Len(pnl_history) >= 3
    /\ pnl_history[1][1] < pnl_history[Len(pnl_history)][1]
    /\ \E i, j \in 1..Len(trades) : trades[i].side = "BUY" /\ trades[j].side = "SELL"
    /\ \E r \in Results : r.filled

----------------------------------------------------------------------------
(* C15: across any sequence of engine operations, orders_processed never     *)
(* decreases and grows by exactly one per order handed to process_order      *)
(* (filled or not), and trades and pnl_history only grow by appending: an    *)
(* entry once appended is never changed, reordered or removed.               *)

IsPrefix(s, t) == Len(s) <= Len(t) /\ SubSeq(t, 1, Len(s)) = s

AppendOnly ==
    /\ orders_processed' >= orders_processed
    /\ IsPrefix(trades, trades')
    /\ IsPrefix(pnl_history, pnl_history')

\* the orders the step handed to process_order
HandedToProcessOrder == IF last'.op \in {"tick", "order"} THEN Len(last'.results) ELSE 0

\* the orders process_market_data took from the strategy in the step
HandedByTick == IF last'.op = "tick" THEN Len(last'.results) ELSE 0

\* the claim as it is stated
C15_CounterPerOrderAsStated ==
    [][AppendOnly /\ orders_processed' = orders_processed + HandedToProcessOrder]_vars

\* the counter belongs to the loop of process_market_data: it grows by one per
\* order of a tick, filled or not, and a direct process_order call leaves it alone
C15_CounterPerTickOrder ==
    [][AppendOnly /\ orders_processed' = orders_processed + HandedByTick]_vars

\* after a tick whose orders filled and one whose orders did not, an order was
\* submitted directly and filled
C15_Witness ==
    /\ last.op = "order"
    /\ \E r \in Results : r.filled
    /\ Len(last.before.trades) > 0
    /\ orders_processed > Len(last.before.trades)
    /\ orders_processed = last.before.orders_processed

----------------------------------------------------------------------------
(* C16: calculate_slippage is a pure, deterministic function equal to        *)
(* (base_slippage_bps/10000) x (1 + 0.1 x min(quantity/1000, 10))            *)
(* x (1 + 2 x volatility) x (2 if the order is MARKET else 1); it returns    *)
(* the same value for every quantity >= 10000 (e.g. 10000 and 100000), is    *)
(* non-decreasing in quantity, and reads or modifies no engine or book       *)
(* state.                                                                    *)

\* 1000 * FracDen times the stated product, base in tenths of a basis point,
\* volatility in hundredths
SlippageFormula_x1000(base_slippage, quantity, type, volatility) ==
    base_slippage * (10000 + Min(quantity, 10000)) * (100 + 2 * volatility)
        * (IF type = "MARKET" THEN 2 ELSE 1)

WithQuantity(order, quantity) == [order EXCEPT !.quantity = quantity]

SlippageAsStated(x) ==
    /\ x.slippage * 1000 =
           SlippageFormula_x1000(x.base_slippage, x.order.quantity, x.order.type, x.volatility)
    /\ x.slippage = calculate_slippage(x.base_slippage, x.order, x.volatility)
    /\ x.order.quantity >= 10000 =>
           x.slippage = calculate_slippage(x.base_slippage, WithQuantity(x.order, 10000),
                                           x.volatility)
    /\ \A quantity \in SlippageQuantities :
           quantity >= x.order.quantity =>
               x.slippage <= calculate_slippage(x.base_slippage,
                                                WithQuantity(x.order, quantity), x.volatility)

C16_SlippageFormula ==
    /\ last.op = "slippage" =>
           /\ \A x \in Results : SlippageAsStated(x)
           /\ Snapshot(Engine) = last.before
    /\ \A order \in SlippageOrders :
           calculate_slippage(DefaultBaseSlippage, WithQuantity(order, 10000), DefaultVolatility)
               = calculate_slippage(DefaultBaseSlippage, WithQuantity(order, 100000),
                                    DefaultVolatility)
    /\ \A i \in 1..Len(trades) :
           trades[i].slippage * 1000 =
               SlippageFormula_x1000(DefaultBaseSlippage, trades[i].quantity, "LIMIT",
                                     DefaultVolatility)

\* the model was asked about a MARKET order beyond the cap while the engine held trades
C16_Witness ==
    /\ last.op = "slippage"
    /\ \E x \in Results :
           /\ x.order.quantity > 10000
           /\ x.order.type = "MARKET"
           /\ x.volatility > 0
           /\ x.slippage > 0
    /\ trades # <<>>

----------------------------------------------------------------------------
(* C17: max_drawdown equals the largest value, over a forward scan of        *)
(* pnl_history, of (running peak - current value), where the running peak is *)
(* the highest cumulative pnl recorded in the history up to and including    *)
(* that entry; it is 0 for an empty history, and values [50, -20, 30] give   *)
(* 70.                                                                       *)

WSetMax(S) == CHOOSE x \in S : \A y \in S : WLeq(y, x)

RecordedUpTo(history, i) == {history[k][2] : k \in 1..i}

\* the largest peak - current over the history, the peak at entry i being the
\* highest of floor and the values recorded up to i
LargestDecline(history, floor) ==
    WSetMax({WZero} \cup
            {WSub(WSetMax(floor \cup RecordedUpTo(history, i)), history[i][2]) :
                 i \in 1..Len(history)})

max_drawdown_of(history) ==
    drawdown_scan(history, [peak_pnl |-> WZero, max_drawdown |-> WZero]).max_drawdown

\* 50.0, -20.0, 30.0 at timestamps 1, 2, 3
ExampleHistory == << <<1, WInt(50 * 10000)>>, <<2, WInt(-20 * 10000)>>, <<3, WInt(30 * 10000)>> >>

DrawdownExamples ==
    /\ max_drawdown_of(<<>>) = WZero
    /\ calculate_performance_metrics(EmptyEngine, 1).max_drawdown = WZero
    /\ max_drawdown_of(ExampleHistory) = WInt(70 * 10000)

\* the claim as it is stated: the peak is taken over the recorded values alone
C17_DrawdownAsStated ==
    /\ calculate_performance_metrics(Engine, 1).max_drawdown = LargestDecline(pnl_history, {})
    /\ DrawdownExamples

\* the scan starts from a peak of 0: the running peak is the highest of 0 and
\* the values recorded so far
C17_DrawdownFromZeroPeak ==
    /\ calculate_performance_metrics(Engine, 1).max_drawdown
           = LargestDecline(pnl_history, {WZero})
    /\ DrawdownExamples

\* a history that starts below zero, rises above it and falls back
C17_Witness ==
    /\ Len(pnl_history) >= 3
    /\ WLess(pnl_history[1][2], WZero)
    /\ \E i, j \in 1..Len(pnl_history) :
           /\ i < j
           /\ WLess(WZero, pnl_history[i][2])
           /\ WLess(pnl_history[j][2], pnl_history[i][2])

----------------------------------------------------------------------------
(* C18: the hit_rate in the metrics snapshot returned by                     *)
(* calculate_performance_metrics equals winning_trades / total_trades, a     *)
(* fraction in [0, 1] (0 if there are no trades); four trades with trade_pnl *)
(* signs [+,+,-,+] give hit_rate = 0.75.                                     *)

\* the ratio r equals num / den, den > 0
RatioEquals(r, num, den) == r.num * den = num * r.den

HitRateIsFraction(metrics) ==
    /\ metrics.total_trades > 0 =>
           RatioEquals(metrics.hit_rate, metrics.winning_trades, metrics.total_trades)
    /\ metrics.total_trades = 0 => metrics.hit_rate.num = 0
    /\ 0 <= metrics.hit_rate.num /\ metrics.hit_rate.num <= metrics.hit_rate.den

ExampleTrade(side, timestamp) ==
    [order_id |-> timestamp, symbol |-> "A", side |-> side, quantity |-> 100,
     price |-> WInt(MidPrice), timestamp |-> timestamp, slippage |-> 0]

\* four trades whose trade_pnl signs are +, +, -, +
ExampleTrades ==
    << ExampleTrade("SELL", 1), ExampleTrade("SELL", 2), ExampleTrade("BUY", 3),
       ExampleTrade("SELL", 4) >>

ExampleMetrics ==
    calculate_performance_metrics([EmptyEngine EXCEPT !.trades = ExampleTrades], 1)

C18_HitRateIsFraction ==
    /\ \A duration \in {0, 1} :
           HitRateIsFraction(calculate_performance_metrics(Engine, duration))
    /\ ExampleMetrics.winning_trades = 3
    /\ RatioEquals(ExampleMetrics.hit_rate, 75, 100)

----------------------------------------------------------------------------
(* C19: two consecutive calls of calculate_performance_metrics with the      *)
(* same duration on an unchanged engine return identical metrics, and a call *)
(* modifies no engine state (trades, pnl_history, current_pnl, positions,    *)
(* orders_processed, latency series).                                        *)

C19_MetricsIdempotent ==
    last.op = "metrics" =>
        LET x == last.results[1]
        IN  /\ x.repeated => x.metrics = x.previous
            /\ Snapshot(Engine) = last.before
            /\ latency_measurements = x.latency_before
            /\ calculate_performance_metrics(Engine, x.duration) = x.metrics

\* the second of two calls with the same positive duration, on an engine with
\* trades and latency readings
C19_Witness ==
    /\ last.op = "metrics"
    /\ last.results[1].repeated
    /\ last.results[1].duration > 0
    /\ last.results[1].metrics.total_trades > 0
    /\ last.results[1].metrics.avg_latency_ms.num > 0
    /\ last.results[1].metrics.throughput_orders_per_sec.num > 0

----------------------------------------------------------------------------
(* C20: when the trade list is empty (an empty tick stream, or ticks that    *)
(* produced no fill), run_backtest completes and every field of the returned *)
(* PerformanceMetrics is zero.                                               *)

MetricsFields ==
    {"total_pnl", "realized_pnl", "unrealized_pnl", "total_trades", "winning_trades",
     "losing_trades", "avg_trade_pnl", "max_drawdown", "sharpe_ratio", "hit_rate",
     "total_slippage", "avg_slippage", "volume_traded", "throughput_orders_per_sec",
     "avg_latency_ms"}

AllZero(metrics) ==
    /\ DOMAIN metrics = MetricsFields
    /\ metrics.total_pnl = WZero
    /\ metrics.realized_pnl = WZero
    /\ metrics.unrealized_pnl = WZero
    /\ metrics.total_trades = 0
    /\ metrics.winning_trades = 0
    /\ metrics.losing_trades = 0
    /\ metrics.avg_trade_pnl.num = WZero
    /\ metrics.max_drawdown = WZero
    /\ metrics.sharpe_ratio.mean_over_std_of = <<>>
    /\ metrics.hit_rate.num = 0
    /\ metrics.total_slippage = <<>>
    /\ metrics.avg_slippage.num = <<>>
    /\ metrics.volume_traded = 0
    /\ metrics.throughput_orders_per_sec.num = 0
    /\ metrics.avg_latency_ms.num = 0

C20_NoTradesAllZero ==
    /\ last.op = "metrics" /\ trades = <<>> => AllZero(last.results[1].metrics)
    /\ trades = <<>> =>
           \A duration \in Durations : AllZero(calculate_performance_metrics(Engine, duration))
    /\ \A duration \in Durations :
           AllZero(calculate_performance_metrics(run_backtest(EmptyEngine, <<>>), duration))

\* the metrics of a run whose ticks drew orders and filled none
C20_Witness ==
    /\ last.op = "metrics"
    /\ trades = <<>>
    /\ stream # <<>>
    /\ orders_processed > 0
    /\ latency_measurements # <<>>
    /\ last.results[1].duration > 0

----------------------------------------------------------------------------
(* C21: for every engine state reached by a run with duration > 0, the       *)
(* metrics' throughput_orders_per_sec equals orders_processed / duration and *)
(* avg_latency_ms equals the mean of the recorded per-tick latency series,   *)
(* whatever the number of trades (in particular when orders were processed   *)
(* but none filled).                                                         *)

\* orders per second over a duration in ms, and the mean of the latency series
ThroughputAndLatencyReported(metrics, duration) ==
    /\ RatioEquals(metrics.throughput_orders_per_sec, orders_processed * 1000, duration)
    /\ latency_measurements # <<>> =>
           RatioEquals(metrics.avg_latency_ms, Sum(latency_measurements),
                       Len(latency_measurements))

\* the claim as it is stated
C21_ThroughputAsStated ==
    last.op = "metrics" /\ last.results[1].duration > 0 =>
        ThroughputAndLatencyReported(last.results[1].metrics, last.results[1].duration)

\* the two fields are computed once a trade exists; without trades both are 0
C21_ThroughputOnceTraded ==
    last.op = "metrics" /\ last.results[1].duration > 0 =>
        IF trades # <<>>
        THEN ThroughputAndLatencyReported(last.results[1].metrics, last.results[1].duration)
        ELSE /\ last.results[1].metrics.throughput_orders_per_sec.num = 0
             /\ last.results[1].metrics.avg_latency_ms.num = 0

\* metrics of a run with trades, orders that did not fill and unequal latencies
C21_Witness ==
    /\ last.op = "metrics" /\ last.results[1].duration > 0
    /\ trades # <<>>
    /\ orders_processed > Len(trades)
    /\ \E i, j \in 1..Len(latency_measurements) :
           latency_measurements[i] # latency_measurements[j]

----------------------------------------------------------------------------
(* C22: the cache never affects the simulation: for any tick stream, the     *)
(* resulting trades, pnl_history, positions and orders_processed are         *)
(* identical whether the cache is connected, absent, or fails on any         *)
(* individual write, and a failing cache write never propagates an error out *)
(* of process_market_data.                                                   *)

\* the engine as add_strategy left it, before the first tick
FreshEngine ==
    [EmptyEngine EXCEPT
        !.strategies = [symbol \in Registered |->
                           NewStrategy(symbol, strategies[symbol].spread_bps,
                                       strategies[symbol].max_position,
                                       strategies[symbol].inventory_target)],
        !.order_books = [symbol \in Registered |-> NewOrderBook(symbol)],
        !.positions = [symbol \in Registered |-> 0],
        !.on_trade_calls = [symbol \in Registered |-> 0],
        !.emitted = [symbol \in Registered |-> <<>>]]

\* the run over the same stream of an engine that has no cache
RunWithoutCache == run_backtest(FreshEngine, stream)

C22_CacheNeverAffectsRun ==
    /\ trades = RunWithoutCache.trades
    /\ pnl_history = RunWithoutCache.pnl_history
    /\ positions = RunWithoutCache.positions
    /\ orders_processed = RunWithoutCache.orders_processed
    /\ last.op = "tick" => ~last.raised

\* a connected cache holds an entry, the write of the latest tick failed and the
\* tick traded all the same
C22_Witness ==
    /\ redis_client = "connected"
    /\ redis_store # EmptyDict
    /\ last.op = "tick" /\ ~last.setex_ok
    /\ \E r \in Results : r.filled
    /\ Len(stream) >= 3

----------------------------------------------------------------------------
(* C23: simulation outcomes are independent of wall-clock readings: two runs *)
(* of the engine over the same tick stream with the same strategies, under   *)
(* arbitrary different latency/clock observations, produce identical trades  *)
(* (ids, sides, quantities, prices, timestamps), pnl_history and positions;  *)
(* the latency series is written but never read by any fill, quote or        *)
(* bookkeeping step.                                                         *)

\* run_backtest on a machine whose clock yields latency_ms at every tick
RECURSIVE run_backtest_clocked(_, _, _)
run_backtest_clocked(e, market_data_stream, latency_ms) ==
    IF market_data_stream = <<>> THEN e
    ELSE LET data == Head(market_data_stream)
             e1 == process_market_data(e, data)
             e2 == IF data.symbol \in DOMAIN e.order_books /\ data.symbol \in DOMAIN e.strategies
                   THEN [e1 EXCEPT !.latency_measurements = Append(@, latency_ms)]
                   ELSE e1
         IN  run_backtest_clocked(e2, Tail(market_data_stream), latency_ms)

\* the readings of two other clocks, in ms
OtherClocks == {0, 7}

SameOutcome(run) ==
    /\ trades = run.trades
    /\ pnl_history = run.pnl_history
    /\ positions = run.positions
    /\ strategies = run.strategies
    /\ orders_processed = run.orders_processed
    /\ Len(latency_measurements) = Len(run.latency_measurements)

C23_OutcomeIndependentOfClock ==
    \A latency_ms \in OtherClocks :
        SameOutcome(run_backtest_clocked(FreshEngine, stream, latency_ms))

\* three ticks were timed with unequal readings and trades resulted
C23_Witness ==
    /\ Len(latency_measurements) >= 3
    /\ \E i, j \in 1..Len(latency_measurements) : i < j /\
           latency_measurements[i] > latency_measurements[j]
    /\ Len(trades) >= 3

----------------------------------------------------------------------------
(* C24: if an order with a non-positive price or a non-positive quantity     *)
(* reaches process_order, it is rejected: no Trade is created and trades,    *)
(* pnl_history, current_pnl, positions and the strategy's position are left  *)
(* unchanged.                                                                *)

\* a LIMIT order whose price or quantity is not positive
InvalidOrder(order) ==
    order.type = "LIMIT" /\ (order.price <= 0 \/ order.quantity <= 0)

LeftUnchanged(r) ==
    /\ r.after.trades = r.before.trades
    /\ r.after.pnl_history = r.before.pnl_history
    /\ r.after.current_pnl = r.before.current_pnl
    /\ r.after.positions = r.before.positions
    /\ r.after.strategies = r.before.strategies

C24_InvalidOrderRejected ==
    \A r \in Results : InvalidOrder(r.order) => ~r.filled /\ LeftUnchanged(r)

----------------------------------------------------------------------------
(* C25: if processing one tick or order raises an error (e.g. a malformed    *)
(* tick), run_backtest contains it at tick granularity: the remaining ticks  *)
(* of the stream are still processed, the effects of the ticks processed     *)
(* before it are kept, and a PerformanceMetrics snapshot is still returned.  *)

\* a tick object without the quote attributes
MalformedTick(symbol) == [symbol |-> symbol, timestamp |-> 1]

\* process_market_data raises: OrderBook.update reads data.bid, which the object
\* lacks, before it assigns anything; a symbol without a book is never read
tick_raises(e, data) ==
    data.symbol \in DOMAIN e.order_books /\ "bid" \notin DOMAIN data

\* the for loop of run_backtest: an exception of process_market_data leaves it
RECURSIVE run_backtest_loop(_, _, _)
run_backtest_loop(e, market_data_stream, latency_ms) ==
    IF market_data_stream = <<>>
    THEN [engine |-> e, raised |-> FALSE, unprocessed |-> <<>>]
    ELSE IF tick_raises(e, Head(market_data_stream))
    THEN [engine |-> e, raised |-> TRUE, unprocessed |-> Tail(market_data_stream)]
    ELSE CHOOSE run \in { run_backtest_loop(e1, Tail(market_data_stream), latency_ms) :
                               e1 \in { run_backtest_clocked(e, <<Head(market_data_stream)>>,
                                                             latency_ms) } } : TRUE

RunTicks ==
    { Around("A", 150, 50, 0, 2),
      Around("A", 300, 0, 50, 1),
      Around("A", 1000, 500, 500, 3),
      MalformedTick("A") }

RunStreams == UNION { [1..n -> RunTicks] : n \in 0..MaxTicks }

\* metrics = engine.run_backtest(market_data_stream)
RunBacktest(market_data_stream, duration, latency_ms) ==
    /\ calls = 0
    /\ calls' = 1
    /\ stream' = market_data_stream
    /\ \E run \in { run_backtest_loop(Engine, market_data_stream, latency_ms) } :
           /\ Commit(run.engine)
           /\ latency_measurements' = run.engine.latency_measurements
           /\ last' = [Last("run_backtest", NoTick, run.engine.results) EXCEPT
                          !.raised = run.raised,
                          !.data = [returned |-> ~run.raised,
                                    unprocessed |-> run.unprocessed,
                                    metrics |-> IF run.raised THEN <<>>
                                                ELSE calculate_performance_metrics(
                                                         run.engine, duration)]]
    /\ UNCHANGED <<parser, bindings, processor, redis_client, redis_store>>

NextRun ==
    \/ \E config \in CacheConfigs : AddStrategy("A", config)
    \/ \E market_data_stream \in RunStreams : \E duration \in Durations :
           RunBacktest(market_data_stream, duration, 1)

\* a caller that hands a whole stream to run_backtest
SpecRun == Init /\ [][NextRun]_vars

\* the stream held a tick whose processing raised
RaisedDuring(market_data_stream) ==
    \E i \in 1..Len(market_data_stream) :
        "bid" \notin DOMAIN market_data_stream[i] /\
        market_data_stream[i].symbol \in DOMAIN order_books

\* the ticks of the stream whose processing does not raise
WellFormed(market_data_stream) ==
    SelectSeq(market_data_stream, LAMBDA data : "bid" \in DOMAIN data)

C25_ErrorContainedPerTick ==
    (last.op = "run_backtest" /\ RaisedDuring(stream)) =>
        /\ last.data.returned
        /\ last.data.unprocessed = <<>>
        /\ trades = run_backtest(FreshEngine, WellFormed(stream)).trades

----------------------------------------------------------------------------
(* C26: simulate_realistic_trading stops consuming ticks once the elapsed    *)
(* wall-clock time exceeds duration_seconds: no order is submitted for the   *)
(* tick at which the budget is found exceeded or for any later tick, the     *)
(* effects of earlier ticks are kept (no rollback), a result is returned for *)
(* every input including an empty tick list, and the reported                *)
(* ticks_processed equals the number of ticks actually processed.            *)

SimTick(price, timestamp) == [symbol |-> "A", timestamp |-> timestamp, price |-> price]

SimTicks == { SimTick(MidPrice, 1), SimTick(MidPrice + 2000, 2) }

TickLists == UNION { [1..n -> SimTicks] : n \in 0..MaxTicks }

\* the budget of the simulation and the elapsed seconds a clock can show
SimDurations == {1}
Elapsed == {0, 1, 2}

\* time.perf_counter() never runs backwards
Clocks(n) ==
    { clock \in [1..n -> Elapsed] : \A k \in 1..n : \A l \in k..n : clock[k] <= clock[l] }

Draws ==
    { [strategy_choice |-> 30, quantity |-> 50],
      [strategy_choice |-> 30, quantity |-> 200],
      [strategy_choice |-> 75, quantity |-> 25],
      [strategy_choice |-> 95, quantity |-> 0] }

\* processor.simulate_realistic_trading(tick_data, duration_seconds)
Simulate(tick_data, duration_seconds, clock, draws) ==
    /\ processor.op = "init"
    /\ processor' = simulate_realistic_trading(processor, tick_data, duration_seconds, clock,
                                                draws)
    /\ UNCHANGED <<parser, bindings, redis_client, redis_store, order_books, strategies, trades,
                   pnl_history, current_pnl, positions, latency_measurements,
                   orders_processed, on_trade_calls, emitted, stream, calls, last>>

NextSimulate ==
    \E tick_data \in TickLists : \E clock \in Clocks(Len(tick_data)) :
        \E draws \in [1..Len(tick_data) -> Draws] : \E duration_seconds \in SimDurations :
            Simulate(tick_data, duration_seconds, clock, draws)

SpecSimulate == Init /\ [][NextSimulate]_vars

Submitted == UNION { {processor.order_books[symbol][k] : k \in 1..Len(processor.order_books[symbol])} :
                     symbol \in DOMAIN processor.order_books }

C26_StopsAtBudgetAndReports ==
    processor.op = "simulate" =>
        /\ ~processor.raised
        /\ processor.result.ticks_processed = processor.consumed
        /\ processor.broke_at # <<>> =>
               \A o \in Submitted : o.tick_number < processor.broke_at[1]

----------------------------------------------------------------------------
(* C27: with max_position <= 0 (even with a nonzero inventory_target),       *)
(* generate_orders never fails: no division by max_position is performed,    *)
(* the inventory skew is taken as 0, and the quote prices it computes are    *)
(* the unskewed tick.bid + 0.01 and tick.ask - 0.01.                         *)

SkewDisabled(strategy, data) ==
    /\ skew_adjustment(strategy, data) = 0
    /\ quote_prices(strategy, data) = <<data.bid + PriceImprovement, data.ask - PriceImprovement>>
    /\ \A i \in 1..Len(generate_orders(strategy, data, data.timestamp).orders) :
           generate_orders(strategy, data, data.timestamp).orders[i].price
               \in {data.bid + PriceImprovement, data.ask - PriceImprovement}

\* strategies without a usable limit, flat or holding inventory
UnlimitedStrategies ==
    { [NewStrategy("A", spread_bps, max_position, inventory_target) EXCEPT !.position = position] :
          spread_bps \in {2, 50}, max_position \in {0, -100},
          inventory_target \in {0, 100}, position \in {-100, 0, 100} }

C27_NoSkewWithoutLimit ==
    /\ (/\ last.op = "tick"
        /\ last.data.symbol \in DOMAIN last.before.strategies
        /\ last.data.bid > 0 /\ last.data.ask > 0
        /\ last.before.strategies[last.data.symbol].max_position <= 0)
           => SkewDisabled(last.before.strategies[last.data.symbol], last.data)
    /\ \A strategy \in UnlimitedStrategies :
           (last.op = "tick" /\ last.data.bid > 0 /\ last.data.ask > 0)
               => SkewDisabled(strategy, last.data)

\* a strategy with max_position = 0 and inventory_target = 100 was given a tick
\* with a market
C27_Witness ==
    /\ last.op = "tick"
    /\ last.data.symbol \in DOMAIN last.before.strategies
    /\ last.data.bid > 0 /\ last.data.ask > 0
    /\ last.before.strategies[last.data.symbol].max_position = 0
    /\ last.before.strategies[last.data.symbol].inventory_target = 100

----------------------------------------------------------------------------
(* C28: symbols are independent: processing a tick of symbol A leaves the    *)
(* order book, strategy state (position, order_id_counter) and engine        *)
(* position of every other symbol unchanged, so for any two interleavings of *)
(* the same per-symbol tick sequences that preserve each symbol's own order, *)
(* every symbol's sequence of trades and its final position are identical.   *)

\* the ticks of one symbol, in their own order
TicksOf(market_data_stream, symbol) ==
    SelectSeq(market_data_stream, LAMBDA data : data.symbol = symbol)

TradeSeqOf(seq, symbol) == SelectSeq(seq, LAMBDA trade : trade.symbol = symbol)

\* the run of the same strategies over the ticks of one symbol alone
RunAlone(symbol) == run_backtest(FreshEngine, TicksOf(stream, symbol))

OthersUntouched ==
    last.op = "tick" =>
        \A symbol \in DOMAIN last.before.order_books \ {last.data.symbol} :
            /\ order_books[symbol] = last.before.order_books[symbol]
            /\ strategies[symbol] = last.before.strategies[symbol]
            /\ positions[symbol] = last.before.positions[symbol]
            /\ TradeSeqOf(trades, symbol) = TradeSeqOf(last.before.trades, symbol)

C28_SymbolsIndependent ==
    /\ OthersUntouched
    /\ \A symbol \in Registered :
           /\ TradeSeqOf(trades, symbol) = TradeSeqOf(RunAlone(symbol).trades, symbol)
           /\ positions[symbol] = RunAlone(symbol).positions[symbol]
           /\ strategies[symbol] = RunAlone(symbol).strategies[symbol]

\* a tick of "B" came between two ticks of "A", both symbols traded and the
\* latest tick found the other symbol away from its initial state
C28_Witness ==
    /\ Len(stream) = 3
    /\ stream[1].symbol = "A" /\ stream[2].symbol = "B" /\ stream[3].symbol = "A"
    /\ last.op = "tick"
    /\ TradeSeqOf(trades, "A") # <<>>
    /\ TradeSeqOf(trades, "B") # <<>>
    /\ strategies["B"].order_id_counter > 0
    /\ positions["A"] # 0

----------------------------------------------------------------------------
(* C29: position limits are not enforced at fill time: there is a reachable  *)
(* execution in which the fills of a single tick for one symbol leave the    *)
(* strategy's position outside [-max_position, max_position].                *)

PositionOf(snapshot, symbol) == snapshot.strategies[symbol].position

\* a fill moves the strategy's position by the whole order, whatever the limit
C29_FillsIgnoreLimit ==
    \A r \in Results :
        r.filled =>
            PositionOf(r.after, r.order.symbol) =
                PositionOf(r.before, r.order.symbol)
                    + (IF r.order.side = "BUY" THEN r.order.quantity ELSE -r.order.quantity)

\* the fills of the latest tick took a strategy with a positive limit from
\* inside the limit to outside it
C29_Witness ==
    /\ last.op = "tick"
    /\ last.data.symbol \in Registered
    /\ strategies[last.data.symbol].max_position > 0
    /\ Abs(PositionOf(last.before, last.data.symbol)) <= strategies[last.data.symbol].max_position
    /\ Abs(strategies[last.data.symbol].position) > strategies[last.data.symbol].max_position
    /\ \E r \in Results : r.filled

----------------------------------------------------------------------------
(* C30: if max_position is a positive multiple of the lot size 100 and the   *)
(* strategy starts at position 0, then under any tick sequence driven        *)
(* through the engine the strategy's position is, after every single fill, a *)
(* multiple of 100 lying within [-max_position, max_position].               *)

WholeLotLimit(strategy) ==
    strategy.max_position > 0 /\ strategy.max_position % OrderQuantity = 0

C30_PositionWithinWholeLotLimit ==
    /\ \A r \in Results :
           (r.filled /\ WholeLotLimit(r.before.strategies[r.order.symbol])) =>
               /\ PositionOf(r.after, r.order.symbol) % OrderQuantity = 0
               /\ Abs(PositionOf(r.after, r.order.symbol))
                      <= r.after.strategies[r.order.symbol].max_position
    /\ \A symbol \in Registered :
           WholeLotLimit(strategies[symbol]) =>
               /\ strategies[symbol].position % OrderQuantity = 0
               /\ Abs(strategies[symbol].position) <= strategies[symbol].max_position

\* a fill took a strategy with max_position = 100 to its limit, and a later
\* tick found it there
C30_Witness ==
    /\ last.op = "tick"
    /\ last.data.symbol \in Registered
    /\ WholeLotLimit(strategies[last.data.symbol])
    /\ Abs(PositionOf(last.before, last.data.symbol)) = strategies[last.data.symbol].max_position
    /\ \E r \in Results : r.filled

----------------------------------------------------------------------------
(* The strategy called on its own: generate_orders for a strategy object in  *)
(* any configuration and position, outside an engine.                        *)

QuoteStrategies ==
    { [NewStrategy("A", spread_bps, max_position, inventory_target) EXCEPT !.position = position] :
          spread_bps \in {0, 2, 50, 2000}, max_position \in {0, 1, 100, 1000},
          inventory_target \in {0, 100}, position \in {-100, 0, 100} }

QuoteTicks ==
    { Around("A", 150, 500, 500, 1),
      Around("A", 1000, 500, 500, 2),
      Around("A", 100, 500, 500, 3),                      \* ask - bid = 0.02
      Around("A", 50, 500, 500, 1),                       \* ask - bid = 0.01
      MarketData("A", 90 * 100, 110 * 100, 500, 500, 2),  \* 0.90 / 1.10
      MarketData("A", 98 * 100, 100 * 100, 500, 500, 3),  \* 0.98 / 1.00
      MarketData("A", 0, MidPrice, 500, 500, 1) }         \* no bid

\* the pairs whose quotes are whole numbers of price units within 32 bits
Representable(strategy, data) ==
    /\ strategy.spread_bps <= 50 \/ data.bid + data.ask <= 2 * 100 * 100
    /\ SkewExact(strategy, data)

\* strategy.generate_orders(data, data.timestamp)
GenerateOrders(strategy, data) ==
    /\ calls < MaxTicks
    /\ Representable(strategy, data)
    /\ calls' = calls + 1
    /\ \E g \in { generate_orders(strategy, data, data.timestamp) } :
           last' = Last("generate_orders", data,
                        << [strategy |-> strategy, orders |-> g.orders, after |-> g.strategy] >>)
    /\ UNCHANGED <<parser, bindings, processor, redis_client, redis_store, order_books, strategies, trades,
                   pnl_history, current_pnl, positions, latency_measurements,
                   orders_processed, on_trade_calls, emitted, stream>>

NextQuotes ==
    \E strategy \in QuoteStrategies : \E data \in QuoteTicks : GenerateOrders(strategy, data)

SpecQuotes == Init /\ [][NextQuotes]_vars

\* the call that `last` records, when it was a call of generate_orders
Quoted == IF last.op = "generate_orders" THEN {last.results[1]} ELSE {}

QuotedOrders(q) == {q.orders[i] : i \in 1..Len(q.orders)}

----------------------------------------------------------------------------
(* C31: every order returned by generate_orders, for any tick, position and  *)
(* strategy configuration, is a LIMIT order with side BUY or SELL,           *)
(* quantity > 0 and price >= 0 (the price-positivity guard holds for SELL    *)
(* orders as well as BUY orders).                                            *)

C31_OrdersWellFormed ==
    \A q \in Quoted : \A order \in QuotedOrders(q) :
        /\ order.type = "LIMIT"
        /\ order.side \in {"BUY", "SELL"}
        /\ order.quantity > 0
        /\ order.price >= 0

----------------------------------------------------------------------------
(* C32: whenever generate_orders emits both a BUY and a SELL in one call,    *)
(* the BUY price is strictly below the SELL price (the strategy never        *)
(* crosses itself), and when the inventory skew is zero the BUY price is     *)
(* strictly above tick.bid and the SELL price strictly below tick.ask; when  *)
(* ask - bid <= 0.02 no order at all is emitted.                             *)

OrdersOn(q, side) == {order \in QuotedOrders(q) : order.side = side}

C32_QuotesInsideAndUncrossed ==
    \A q \in Quoted :
        /\ \A buy \in OrdersOn(q, "BUY") : \A sell \in OrdersOn(q, "SELL") :
               buy.price < sell.price
        /\ skew_adjustment(q.strategy, last.data) = 0 =>
               /\ \A buy \in OrdersOn(q, "BUY") : buy.price > last.data.bid
               /\ \A sell \in OrdersOn(q, "SELL") : sell.price < last.data.ask
        /\ last.data.ask - last.data.bid <= 2 * PriceImprovement => q.orders = <<>>

\* a skewed strategy quoted both sides
C32_Witness ==
    \E q \in Quoted :
        /\ OrdersOn(q, "BUY") # {} /\ OrdersOn(q, "SELL") # {}
        /\ skew_adjustment(q.strategy, last.data) # 0

\* a strategy free to trade either way was given a market 0.02 wide and stayed out
C32_WitnessNarrow ==
    \E q \in Quoted :
        /\ last.data.bid > 0
        /\ last.data.ask - last.data.bid = 2 * PriceImprovement
        /\ Abs(q.strategy.position) < q.strategy.max_position
        /\ q.orders = <<>>

----------------------------------------------------------------------------
(* C33: inventory skew biases quotes toward flattening: with                 *)
(* max_position > 0, when position > inventory_target both the BUY and the   *)
(* SELL price are lower than the zero-skew quotes, and when                  *)
(* position < inventory_target both are higher, each shifted by exactly      *)
(* |position - inventory_target| / max_position x (spread_bps/10000 x mid)   *)
(* x 0.1, so the distance between the two quotes does not depend on the      *)
(* position.                                                                 *)

ZeroSkewQuotes(data) == <<data.bid + PriceImprovement, data.ask - PriceImprovement>>

\* shift = excess / max_position x spread x 0.1, with spread = spread_bps / 10000 x mid,
\* cleared of its denominators
ShiftIs(shift, strategy, data) ==
    LET spread_times_1000 == (strategy.spread_bps * (data.bid + data.ask)) \div 20
    IN  /\ spread_times_1000 * 20 = strategy.spread_bps * (data.bid + data.ask)
        /\ shift * strategy.max_position * 10 * 1000
               = Abs(strategy.position - strategy.inventory_target) * spread_times_1000

\* both quotes are moved by the stated amount, against the excess inventory or not at all
SkewShifts(strategy, data) ==
    LET quotes == quote_prices(strategy, data)
        zero == ZeroSkewQuotes(data)
        excess == strategy.position - strategy.inventory_target
    IN  /\ excess > 0 => /\ quotes[1] <= zero[1] /\ quotes[2] <= zero[2]
                          /\ ShiftIs(zero[1] - quotes[1], strategy, data)
                          /\ ShiftIs(zero[2] - quotes[2], strategy, data)
        /\ excess < 0 => /\ quotes[1] >= zero[1] /\ quotes[2] >= zero[2]
                          /\ ShiftIs(quotes[1] - zero[1], strategy, data)
                          /\ ShiftIs(quotes[2] - zero[2], strategy, data)
        /\ excess = 0 => quotes = zero
        /\ quotes[2] - quotes[1] = zero[2] - zero[1]

\* both quotes are strictly lower when long of the target, strictly higher when short
SkewFlattens(strategy, data) ==
    LET quotes == quote_prices(strategy, data)
        zero == ZeroSkewQuotes(data)
        excess == strategy.position - strategy.inventory_target
    IN  /\ excess > 0 => quotes[1] < zero[1] /\ quotes[2] < zero[2]
        /\ excess < 0 => quotes[1] > zero[1] /\ quotes[2] > zero[2]

\* the skew adjustment of the pair is a whole number of price units
WholeSkew(strategy, data) ==
    ((strategy.position - strategy.inventory_target) * spread_x1000(strategy, data))
        % (strategy.max_position * 10 * 1000) = 0

\* the calls the claim speaks of
Skewable(q) ==
    /\ q.strategy.max_position > 0 /\ last.data.bid > 0 /\ last.data.ask > 0
    /\ WholeSkew(q.strategy, last.data)

DistanceFree(q) ==
    \A other \in QuoteStrategies :
        (/\ [other EXCEPT !.position = 0] = [q.strategy EXCEPT !.position = 0]
         /\ Representable(other, last.data) /\ WholeSkew(other, last.data))
            => quote_prices(other, last.data)[2] - quote_prices(other, last.data)[1]
                   = quote_prices(q.strategy, last.data)[2]
                         - quote_prices(q.strategy, last.data)[1]

OrdersCarryQuotes(q) ==
    /\ \A buy \in OrdersOn(q, "BUY") : buy.price = quote_prices(q.strategy, last.data)[1]
    /\ \A sell \in OrdersOn(q, "SELL") : sell.price = quote_prices(q.strategy, last.data)[2]

\* C33 as stated: the quotes move strictly, whatever spread_bps is
C33_SkewFlattensAsStated ==
    \A q \in Quoted :
        Skewable(q) =>
            /\ SkewShifts(q.strategy, last.data)
            /\ SkewFlattens(q.strategy, last.data)
            /\ OrdersCarryQuotes(q)
            /\ DistanceFree(q)

(* C33, restated: the shift and the constant distance hold for every         *)
(* spread_bps; the quotes are strictly lower (higher) when the position is   *)
(* above (below) the target provided spread_bps > 0; with spread_bps = 0 the *)
(* shift is 0 and the quotes are the zero-skew quotes.                       *)
C33_SkewFlattensWithSpread ==
    \A q \in Quoted :
        Skewable(q) =>
            /\ SkewShifts(q.strategy, last.data)
            /\ q.strategy.spread_bps > 0 => SkewFlattens(q.strategy, last.data)
            /\ q.strategy.spread_bps = 0 =>
                   quote_prices(q.strategy, last.data) = ZeroSkewQuotes(last.data)
            /\ OrdersCarryQuotes(q)
            /\ DistanceFree(q)

\* a strategy long of its target quoted both sides below the zero-skew quotes
C33_Witness ==
    \E q \in Quoted :
        /\ q.strategy.max_position > 0
        /\ WholeSkew(q.strategy, last.data)
        /\ q.strategy.position > q.strategy.inventory_target
        /\ \E buy \in OrdersOn(q, "BUY") : buy.price < ZeroSkewQuotes(last.data)[1]
        /\ \E sell \in OrdersOn(q, "SELL") : sell.price < ZeroSkewQuotes(last.data)[2]

----------------------------------------------------------------------------
(* C34: after any sequence of ticks, current_pnl equals the sum over all     *)
(* trades of quantity x price x (+1 for SELL, -1 for BUY); the value of the  *)
(* i-th pnl_history entry equals that sum over the first i trades; and the   *)
(* metrics' total_pnl and realized_pnl equal the last pnl_history value.     *)

\* the sum of quantity x price x (+1 for SELL, -1 for BUY) over the first i trades
CashFlow(i) == WSum(trade_pnls(SubSeq(trades, 1, i)))

C34_PnlIsCashFlow ==
    /\ current_pnl = CashFlow(Len(trades))
    /\ Len(pnl_history) = Len(trades)
    /\ \A i \in 1..Len(pnl_history) : pnl_history[i][2] = CashFlow(i)
    /\ (last.op = "metrics" /\ pnl_history # <<>>) =>
           /\ last.results[1].metrics.total_pnl = pnl_history[Len(pnl_history)][2]
           /\ last.results[1].metrics.realized_pnl = pnl_history[Len(pnl_history)][2]

\* the metrics were taken after purchases and sales
C34_Witness ==
    /\ last.op = "metrics"
    /\ Len(trades) >= 3
    /\ \E i, j \in 1..Len(trades) : trades[i].side = "BUY" /\ trades[j].side = "SELL"
    /\ current_pnl # WZero

----------------------------------------------------------------------------
(* C35: each order produces at most one Trade and a fill is always for the   *)
(* full order quantity: the displayed size on the book never limits it, so   *)
(* process_order creates a Trade of the whole quantity even when the tick's  *)
(* ask_size (for a BUY) or bid_size (for a SELL) is smaller than the order   *)
(* quantity, including 0; the number of trades never exceeds                 *)
(* orders_processed at a tick boundary.                                      *)

\* the size displayed against an order
DisplayedSize(r) ==
    IF r.order.side = "BUY" THEN r.best_ask[2] ELSE r.best_bid[2]

\* the book of the tick with nothing displayed on either side
SizelessBook(data) ==
    update(NewOrderBook(data.symbol), [data EXCEPT !.bid_size = 0, !.ask_size = 0])

C35_WholeFillOncePerOrder ==
    /\ \A r \in Results :
           /\ Len(Appended(r)) = IF r.filled THEN 1 ELSE 0
           /\ r.filled => /\ Appended(r)[1].quantity = r.order.quantity
                           /\ Appended(r)[1].order_id = r.order.id
                           /\ Appended(r)[1].side = r.order.side
           /\ last.op = "tick" => r.filled = match(SizelessBook(last.data), r.order).filled
    /\ Len(trades) <= orders_processed

\* a BUY of 100 filled against an ask that displayed nothing
C35_Witness ==
    \E r \in Results :
        /\ r.filled /\ r.order.side = "BUY"
        /\ DisplayedSize(r) = 0
        /\ Appended(r)[1].quantity = OrderQuantity

----------------------------------------------------------------------------
(* C36: because every trade price is positive,                               *)
(* calculate_performance_metrics counts a trade as winning iff it is a SELL  *)
(* and as losing iff it is a BUY: winning_trades equals the number of SELL   *)
(* trades, losing_trades the number of BUY trades, winning_trades +          *)
(* losing_trades = total_trades, and hit_rate depends only on the mix of     *)
(* sides, not on prices.                                                     *)

CountSide(side) == Cardinality({i \in 1..Len(trades) : trades[i].side = side})

C36_WinnersAreSells ==
    /\ \A i \in 1..Len(trades) : WLess(WZero, trades[i].price) /\ trades[i].quantity > 0
    /\ (last.op = "metrics" /\ trades # <<>>) =>
           LET metrics == last.results[1].metrics
           IN  /\ metrics.winning_trades = CountSide("SELL")
               /\ metrics.losing_trades = CountSide("BUY")
               /\ metrics.winning_trades + metrics.losing_trades = metrics.total_trades
               /\ metrics.hit_rate.num * Len(trades)
                      = 100 * CountSide("SELL") * metrics.hit_rate.den

\* the metrics were taken over more purchases than sales
C36_Witness ==
    /\ last.op = "metrics"
    /\ CountSide("SELL") >= 1
    /\ CountSide("BUY") > CountSide("SELL")
    /\ last.results[1].metrics.losing_trades > last.results[1].metrics.winning_trades

----------------------------------------------------------------------------
(* C37: a tick whose symbol was never registered with add_strategy changes   *)
(* no simulation state: no order book is created for it, and                 *)
(* orders_processed, trades, pnl_history, current_pnl, positions, the        *)
(* latency series and every registered book and strategy are unchanged; no   *)
(* error is raised.                                                          *)

\* the step is a tick of a symbol without a strategy
UnregisteredTick ==
    /\ last'.op = "tick"
    /\ calls' = calls + 1
    /\ last'.data.symbol \notin DOMAIN strategies

C37_UnregisteredTickIsNoOp ==
    [][UnregisteredTick =>
           /\ UNCHANGED <<order_books, strategies, trades, pnl_history, current_pnl,
                          positions, latency_measurements, orders_processed,
                          on_trade_calls, emitted>>
           /\ last'.data.symbol \notin DOMAIN order_books'
           /\ ~last'.raised]_vars

\* a tick of "X" reached an engine that had traded "A"; the cache took the tick
C37_Witness ==
    /\ last.op = "tick"
    /\ last.data.symbol \notin Registered
    /\ "A" \in Registered
    /\ trades # <<>>
    /\ last.data.symbol \in DOMAIN redis_store

----------------------------------------------------------------------------
(* C38: in the multithreaded FIX parsing run, the batches handed to the 8    *)
(* parser threads partition the generated messages (every message is parsed  *)
(* by exactly one thread, the last thread taking the remainder), and once    *)
(* all threads have been joined messages_parsed + parse_errors equals the    *)
(* number of generated messages, with messages_parsed equal to the number of *)
(* messages holding all required tags - under every interleaving of the      *)
(* threads' updates to the shared counters.                                  *)

\* numbers of generated messages: none, fewer than the threads, one per thread
MessageCounts == {0, 3, NumThreads}

EngineUntouched ==
    UNCHANGED <<redis_client, redis_store, order_books, strategies, trades, pnl_history,
                current_pnl, positions, latency_measurements, orders_processed,
                on_trade_calls, emitted, stream, calls, last, processor, bindings>>

StartParsing(message_count) ==
    /\ parser.phase = "init"
    /\ parser' = start_parsing(parser, message_count)
    /\ EngineUntouched

\* messages_parsed += 1 (or parse_errors += 1), the read
LoadCounter(t) ==
    /\ parser.phase = "parsing"
    /\ ~finished(parser, t)
    /\ parser.loaded[t] = <<>>
    /\ parser' = load_counter(parser, t)
    /\ EngineUntouched

\* messages_parsed += 1 (or parse_errors += 1), the write
StoreCounter(t) ==
    /\ parser.phase = "parsing"
    /\ parser.loaded[t] # <<>>
    /\ parser' = store_counter(parser, t)
    /\ EngineUntouched

\* for thread in threads: thread.join()
JoinAll ==
    /\ parser.phase = "parsing"
    /\ \A t \in Threads : finished(parser, t)
    /\ parser' = [parser EXCEPT !.phase = "joined"]
    /\ EngineUntouched

NextFix ==
    \/ \E message_count \in MessageCounts : StartParsing(message_count)
    \/ \E t \in Threads : LoadCounter(t)
    \/ \E t \in Threads : StoreCounter(t)
    \/ JoinAll

SpecFix == Init /\ [][NextFix]_vars

\* the indices of the messages of a batch
BatchSet(t) == {parser.batch[t][k] : k \in 1..Len(parser.batch[t])}

BatchesPartition ==
    /\ UNION {BatchSet(t) : t \in Threads} = 1..Len(parser.fix_messages)
    /\ \A t, u \in Threads : t # u => BatchSet(t) \cap BatchSet(u) = {}
    /\ \A t \in Threads : Cardinality(BatchSet(t)) = Len(parser.batch[t])
    /\ \A t \in Threads \ {NumThreads - 1} :
           Len(parser.batch[t]) = Len(parser.fix_messages) \div NumThreads

ValidMessages ==
    {i \in 1..Len(parser.fix_messages) : is_valid(parser.fix_messages[i])}

C38_EveryMessageCounted ==
    /\ parser.phase # "init" => BatchesPartition
    /\ parser.phase = "joined" =>
           /\ parser.messages_parsed + parser.parse_errors = Len(parser.fix_messages)
           /\ parser.messages_parsed = Cardinality(ValidMessages)

----------------------------------------------------------------------------
(* C39: after PythonHftEngine.stop() returns, every market-making loop has   *)
(* terminated and no further order or trade is ever created, for every       *)
(* sequence of start_market_making / stop calls, including starting market   *)
(* making for several symbols before stopping; stop() itself always          *)
(* terminates.                                                               *)

\* the most market-making threads started in one behaviour
MaxStarts == 3
\* the most orders created in one behaviour
MaxOrders == 4

OnlyBindings ==
    UNCHANGED <<redis_client, redis_store, order_books, strategies, trades, pnl_history,
                current_pnl, positions, latency_measurements, orders_processed,
                on_trade_calls, emitted, stream, calls, last, processor, parser>>

StartMarketMaking(symbol) ==
    /\ bindings.caller = "idle"
    /\ Len(bindings.threads) < MaxStarts
    /\ bindings' = start_market_making(bindings, symbol, DefaultQuoteSize)
    /\ OnlyBindings

StopBegin ==
    /\ bindings.caller = "idle"
    /\ bindings' = stop_begin(bindings)
    /\ OnlyBindings

StopReturn ==
    /\ bindings.caller = "join"
    /\ can_join(bindings)
    /\ bindings' = stop_return(bindings)
    /\ OnlyBindings

LoopStep(t, hash_hit) ==
    /\ t <= Len(bindings.threads)
    /\ bindings.threads[t].pc # "done"
    /\ bindings.threads[t].pc \in {"create_bid", "create_ask"} =>
           Len(bindings.orders) < MaxOrders
    /\ bindings' = loop_step(bindings, t, hash_hit)
    /\ OnlyBindings

NextBindings ==
    \/ \E symbol \in Symbols : StartMarketMaking(symbol)
    \/ StopBegin
    \/ StopReturn
    \/ \E t \in 1..MaxStarts, hash_hit \in BOOLEAN : LoopStep(t, hash_hit)

SpecBindings == Init /\ [][NextBindings]_vars

LoopsTerminated == \A t \in 1..Len(bindings.threads) : bindings.threads[t].pc = "done"

C39_StopEndsMarketMaking ==
    /\ bindings.stopped => LoopsTerminated
    /\ ~bindings.created_after_stop

\* the same holds as long as every loop was stopped before the next was started
StopEndsSingleLoop ==
    ~bindings.overlapped => C39_StopEndsMarketMaking

\* stop() has returned once before market making was started and stopped again
SingleLoopStoppedTwice ==
    /\ ~bindings.overlapped
    /\ bindings.stopped
    /\ Len(bindings.threads) >= 2
    /\ Len(bindings.trades) > 0

====
